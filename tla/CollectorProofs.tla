--------------------------- MODULE CollectorProofs ---------------------------
(***************************************************************************)
(* Proofs about Collector, for every set of workers, every capacity of the *)
(* results channel and every bound on the rounds.                          *)
(***************************************************************************)
EXTENDS Collector, TLAPS

(* The channel holds exactly the results that were sent and not yet        *)
(* applied, each once.                                                     *)
ChannelOK ==
    /\ \A i \in 1 .. Len(results) : worker[results[i]] = "sent"
    /\ \A i, j \in 1 .. Len(results) : results[i] = results[j] => i = j
    /\ \A w \in Workers : worker[w] = "sent" =>
          \E i \in 1 .. Len(results) : results[i] = w

ClosedOK == closed => AllReturned

(* Every round starts every worker.                                        *)
(* The snapshot has the status of exactly the workers that were applied;   *)
(* results are only dropped in a round whose context is done, and the      *)
(* finished snapshot says so.                                              *)
StatusOK ==
    \A w \in Workers :
        /\ worker[w] = "idle" => pc = "boot"
        /\ snapshot.status[w] # "missing" <=> worker[w] = "applied"
        /\ worker[w] = "dropped" =>
              IF pc = "gather" THEN ContextDone ELSE snapshot.scheduler

(* What is published, and what the sink has, at each place of the loop.    *)
LoopOK ==
    /\ pc = "boot" => snapshot = NewSnapshot(0) /\ latest = NewSnapshot(0) /\ sunk = 0
    /\ pc \in {"gather", "publish"} =>
          snapshot.round = latest.round + 1 /\ sunk = latest.round
    /\ pc = "sink" => latest = snapshot /\ latest.round = sunk + 1
    /\ pc \in {"wait", "returned"} => latest = snapshot /\ sunk = latest.round
    /\ pc \in {"sink", "wait", "returned"} => latest.round > 0

IndInv ==
    /\ TypeOK
    /\ RoundJoined
    /\ ChannelOK
    /\ ClosedOK
    /\ StatusOK
    /\ LoopOK
    /\ NoSilentLoss
    /\ HostWins

-----------------------------------------------------------------------------
(* Recording a result changes the status of its worker, and the memory and *)
(* the volumes only for the host and the SNMP worker.                      *)
LEMMA RecordFields ==
    ASSUME NEW s \in Snapshot, NEW w \in Workers, NEW r \in Result
    PROVE  /\ Record(s, w, r) \in Snapshot
           /\ Record(s, w, r).round = s.round
           /\ Record(s, w, r).scheduler = s.scheduler
           /\ Record(s, w, r).status[w] # "missing"
           /\ \A v \in Workers \ {w} : Record(s, w, r).status[v] = s.status[v]
           /\ Record(s, w, r).memory =
                 IF w = "host" THEN (IF r.memory THEN "host" ELSE s.memory)
                 ELSE IF w = "snmp" /\ s.memory = "none" /\ r.memory THEN "snmp"
                 ELSE s.memory
           /\ Record(s, w, r).volumes =
                 IF w = "host" THEN (IF r.volumes THEN "host" ELSE "none")
                 ELSE IF w = "snmp" /\ s.volumes = "none" /\ r.volumes THEN "snmp"
                 ELSE s.volumes
<1> DEFINE a == ApplyResult(s, w, r)
<1>1. /\ a \in Snapshot
      /\ a.round = s.round /\ a.scheduler = s.scheduler /\ a.status = s.status
      /\ a.memory = IF w = "host" THEN (IF r.memory THEN "host" ELSE s.memory)
                    ELSE IF w = "snmp" /\ s.memory = "none" /\ r.memory THEN "snmp"
                    ELSE s.memory
      /\ a.volumes = IF w = "host" THEN (IF r.volumes THEN "host" ELSE "none")
                     ELSE IF w = "snmp" /\ s.volumes = "none" /\ r.volumes THEN "snmp"
                     ELSE s.volumes
  <2>1. CASE w = "host"
    BY <2>1 DEF ApplyResult, ApplyHost, MergeMemory, Snapshot, Source, Result
  <2>2. CASE w = "snmp"
    BY <2>2 DEF ApplyResult, ApplySNMP, MergeMemory, Snapshot, Source, Result
  <2>3. CASE w \notin {"host", "snmp"}
    BY <2>3 DEF ApplyResult
  <2> QED BY <2>1, <2>2, <2>3
<1> HIDE DEF a
<1>2. Record(s, w, r) = [a EXCEPT !.status[w] = IF r.ok THEN "ok" ELSE "failed"]
  BY DEF Record, a
<1> QED BY <1>1, <1>2 DEF Snapshot

LEMMA NewSnapshotFields ==
    ASSUME NEW n \in Nat
    PROVE  /\ NewSnapshot(n) \in Snapshot
           /\ NewSnapshot(n).round = n
           /\ \A w \in Workers : NewSnapshot(n).status[w] = "missing"
           /\ NewSnapshot(n).memory = "none"
           /\ NewSnapshot(n).volumes = "none"
BY DEF NewSnapshot, Snapshot, Source

LEMMA InitIndInv == Init => IndInv
<1> SUFFICES ASSUME Init PROVE IndInv
  OBVIOUS
<1> USE DEF Init
<1>1. TypeOK
  <2>1. NewSnapshot(0) \in Snapshot
    BY NewSnapshotFields
  <2>2. NoResult \in Result
    BY DEF NoResult, Result
  <2>3. result \in [Workers -> Result]
    BY <2>2
  <2>4. worker \in [Workers -> {"idle", "running", "sending", "sent", "applied", "dropped"}]
    OBVIOUS
  <2>5. results \in Seq(Workers)
    OBVIOUS
  <2> QED BY <2>1, <2>3, <2>4, <2>5 DEF TypeOK
<1>2. RoundJoined /\ ChannelOK /\ ClosedOK
  BY DEF RoundJoined, ChannelOK, ClosedOK
<1>3. StatusOK /\ LoopOK /\ NoSilentLoss /\ HostWins
  BY NewSnapshotFields, WorkersAssumption
     DEF StatusOK, LoopOK, NoSilentLoss, HostWins, Delivered
<1> QED BY <1>1, <1>2, <1>3 DEF IndInv

(* A round starts from a joined predecessor, or from nothing.              *)
LEMMA StartRoundStep ==
    ASSUME IndInv, FirstRound \/ TickRound
    PROVE  IndInv'
<1> USE DEF FirstRound, TickRound, StartRound
<1>1. snapshot.round \in Nat
  BY DEF IndInv, TypeOK, Snapshot
<1>2. /\ snapshot' \in Snapshot
      /\ snapshot'.round = snapshot.round + 1
      /\ \A w \in Workers : snapshot'.status[w] = "missing"
      /\ snapshot'.memory = "none" /\ snapshot'.volumes = "none"
  BY <1>1, NewSnapshotFields
<1>3. TypeOK'
  <2>1. NoResult \in Result
    BY DEF NoResult, Result
  <2>2. result' \in [Workers -> Result]
    BY <2>1
  <2>3. worker' \in [Workers -> {"idle", "running", "sending", "sent", "applied", "dropped"}]
    OBVIOUS
  <2>4. results' \in Seq(Workers)
    <3>1. results' = <<>>
      OBVIOUS
    <3> QED BY <3>1
  <2> QED BY <1>2, <2>2, <2>3, <2>4 DEF IndInv, TypeOK
<1>4. (RoundJoined /\ ChannelOK /\ ClosedOK)'
  BY DEF RoundJoined, ChannelOK, ClosedOK
<1>5. StatusOK'
  BY <1>2 DEF StatusOK
<1>6. LoopOK'
  BY <1>1, <1>2, NewSnapshotFields DEF IndInv, LoopOK
<1>7. HostWins'
  BY <1>2, WorkersAssumption DEF HostWins, Delivered
<1>8. NoSilentLoss'
  BY DEF IndInv, NoSilentLoss
<1> QED BY <1>3, <1>4, <1>5, <1>6, <1>7, <1>8 DEF IndInv

LEMMA FinishStep ==
    ASSUME IndInv, NEW w \in Workers, Finish(w)
    PROVE  IndInv'
<1> USE DEF Finish, runVars, channelVars, IndInv
<1>1. TypeOK'
  BY DEF TypeOK, Returns, HostReturns, SNMPReturns, OtherReturns
<1>2. (RoundJoined /\ ChannelOK /\ ClosedOK)'
  BY DEF TypeOK, RoundJoined, ChannelOK, ClosedOK, AllReturned
<1>3. (StatusOK /\ LoopOK /\ NoSilentLoss)'
  BY DEF TypeOK, StatusOK, LoopOK, NoSilentLoss, ContextDone
<1>4. HostWins'
  BY WorkersAssumption DEF TypeOK, HostWins, Delivered
<1> QED BY <1>1, <1>2, <1>3, <1>4

LEMMA SendStep ==
    ASSUME IndInv, NEW w \in Workers, Send(w)
    PROVE  IndInv'
<1> USE DEF Send, runVars, IndInv
<1>1. TypeOK'
  BY DEF TypeOK
<1>2. (RoundJoined /\ ClosedOK)'
  BY DEF TypeOK, RoundJoined, ClosedOK, AllReturned
<1>3. ChannelOK'
  <2>1. /\ results \in Seq(Workers)
        /\ Len(results') = Len(results) + 1
        /\ \A i \in 1 .. Len(results) : results'[i] = results[i]
        /\ results'[Len(results) + 1] = w
    BY DEF TypeOK
  <2>2. \A i \in 1 .. Len(results) : results[i] \in Workers /\ results[i] # w
    BY <2>1 DEF ChannelOK
  <2>3. \A i \in 1 .. Len(results') : worker'[results'[i]] = "sent"
    BY <2>1, <2>2 DEF TypeOK, ChannelOK
  <2>4. \A i, j \in 1 .. Len(results') : results'[i] = results'[j] => i = j
    BY <2>1, <2>2 DEF ChannelOK
  <2>5. \A v \in Workers : worker'[v] = "sent" =>
            \E i \in 1 .. Len(results') : results'[i] = v
    BY <2>1 DEF TypeOK, ChannelOK
  <2> QED BY <2>3, <2>4, <2>5 DEF ChannelOK
<1>4. (StatusOK /\ LoopOK /\ NoSilentLoss)'
  BY DEF TypeOK, StatusOK, LoopOK, NoSilentLoss, ContextDone
<1>5. HostWins'
  BY WorkersAssumption DEF TypeOK, HostWins, Delivered
<1> QED BY <1>1, <1>2, <1>3, <1>4, <1>5

LEMMA DropStep ==
    ASSUME IndInv, NEW w \in Workers, Drop(w)
    PROVE  IndInv'
<1> USE DEF Drop, runVars, channelVars, IndInv
<1>1. TypeOK'
  BY DEF TypeOK
<1>2. (RoundJoined /\ ChannelOK /\ ClosedOK)'
  BY DEF TypeOK, RoundJoined, ChannelOK, ClosedOK, AllReturned
<1>3. StatusOK'
  BY DEF TypeOK, StatusOK, RoundJoined, ContextDone
<1>4. (LoopOK /\ NoSilentLoss)'
  BY DEF LoopOK, NoSilentLoss
<1>5. HostWins'
  BY WorkersAssumption DEF TypeOK, HostWins, Delivered
<1> QED BY <1>1, <1>2, <1>3, <1>4, <1>5

(* The heart of the proof: the head of the channel is a worker that was    *)
(* not applied before, and the merge gives the host precedence.            *)
LEMMA ApplyStep ==
    ASSUME IndInv, Apply
    PROVE  IndInv'
<1> DEFINE w == Head(results)
<1>1. /\ results \in Seq(Workers) /\ results # <<>>
      /\ pc = "gather" /\ pc' = "gather"
      /\ worker' = [worker EXCEPT ![w] = "applied"]
      /\ snapshot' = Record(snapshot, w, result[w])
      /\ UNCHANGED <<stopping, deadline, ticker, result, closed, latest, sunk>>
  BY DEF IndInv, TypeOK, Apply, runVars
<1>2. /\ Len(results') = Len(results) - 1
      /\ \A i \in 1 .. Len(results') : results'[i] = results[i + 1]
      /\ results' \in Seq(Workers)
      /\ Len(results) \in Nat \ {0} /\ results[1] = w
  BY <1>1 DEF Apply
<1>3. w \in Workers /\ worker[w] = "sent"
  BY <1>1, <1>2 DEF IndInv, ChannelOK
<1> HIDE DEF w
<1>4. /\ snapshot \in Snapshot /\ result[w] \in Result
      /\ worker \in [Workers -> {"idle", "running", "sending", "sent", "applied", "dropped"}]
  BY <1>3 DEF IndInv, TypeOK
<1>5. TypeOK'
  BY <1>1, <1>2, <1>3, <1>4, RecordFields DEF IndInv, TypeOK
<1>6. (RoundJoined /\ ClosedOK /\ NoSilentLoss)'
  BY <1>1, <1>3, <1>4 DEF IndInv, RoundJoined, ClosedOK, AllReturned, NoSilentLoss
<1>7. ChannelOK'
  <2>1. \A i \in 1 .. Len(results') : results'[i] \in Workers /\ results'[i] # w
    BY <1>1, <1>2 DEF IndInv, ChannelOK
  <2>2. \A v \in Workers : worker'[v] = "sent" =>
            \E i \in 1 .. Len(results') : results'[i] = v
    <3> SUFFICES ASSUME NEW v \in Workers, worker'[v] = "sent"
                 PROVE  \E i \in 1 .. Len(results') : results'[i] = v
      OBVIOUS
    <3>1. v # w /\ worker[v] = "sent"
      BY <1>1, <1>3, <1>4
    <3>2. PICK j \in 1 .. Len(results) : results[j] = v
      BY <3>1 DEF IndInv, ChannelOK
    <3>3. j # 1
      BY <1>2, <3>1, <3>2
    <3>4. j - 1 \in 1 .. Len(results') /\ results'[j - 1] = v
      BY <1>2, <3>2, <3>3
    <3> QED BY <3>4
  <2>3. \A i \in 1 .. Len(results') : worker'[results'[i]] = "sent"
    <3> SUFFICES ASSUME NEW i \in 1 .. Len(results')
                 PROVE  worker'[results'[i]] = "sent"
      OBVIOUS
    <3>1. i + 1 \in 1 .. Len(results) /\ results'[i] = results[i + 1]
      BY <1>2
    <3>2. worker[results'[i]] = "sent"
      BY <3>1 DEF IndInv, ChannelOK
    <3> QED BY <1>1, <1>4, <2>1, <3>2
  <2>4. \A i, j \in 1 .. Len(results') : results'[i] = results'[j] => i = j
    <3> SUFFICES ASSUME NEW i \in 1 .. Len(results'), NEW j \in 1 .. Len(results'),
                        results'[i] = results'[j]
                 PROVE  i = j
      OBVIOUS
    <3>1. /\ i + 1 \in 1 .. Len(results) /\ results'[i] = results[i + 1]
          /\ j + 1 \in 1 .. Len(results) /\ results'[j] = results[j + 1]
      BY <1>2
    <3>2. i + 1 = j + 1
      BY <3>1 DEF IndInv, ChannelOK
    <3> QED BY <3>2
  <2> QED BY <2>2, <2>3, <2>4 DEF ChannelOK
<1>8. StatusOK'
  <2> SUFFICES ASSUME NEW v \in Workers
               PROVE  /\ worker'[v] # "idle"
                      /\ snapshot'.status[v] # "missing" <=> worker'[v] = "applied"
                      /\ worker'[v] = "dropped" => ContextDone'
    BY <1>1 DEF StatusOK
  <2>1. CASE v = w
    BY <1>1, <1>3, <1>4, <2>1, RecordFields
  <2>2. CASE v # w
    <3>1. snapshot'.status[v] = snapshot.status[v] /\ worker'[v] = worker[v]
      BY <1>1, <1>3, <1>4, <2>2, RecordFields
    <3> QED BY <1>1, <3>1 DEF IndInv, StatusOK, ContextDone
  <2> QED BY <2>1, <2>2
<1>9. LoopOK'
  <2>1. snapshot'.round = snapshot.round
    BY <1>1, <1>3, <1>4, RecordFields
  <2> QED BY <1>1, <2>1 DEF IndInv, LoopOK
<1>10. HostWins'
  <2>1. /\ snapshot'.memory =
              IF w = "host" THEN (IF result["host"].memory THEN "host" ELSE snapshot.memory)
              ELSE IF w = "snmp" /\ snapshot.memory = "none" /\ result["snmp"].memory
              THEN "snmp" ELSE snapshot.memory
        /\ snapshot'.volumes =
              IF w = "host" THEN (IF result["host"].volumes THEN "host" ELSE "none")
              ELSE IF w = "snmp" /\ snapshot.volumes = "none" /\ result["snmp"].volumes
              THEN "snmp" ELSE snapshot.volumes
    BY <1>1, <1>3, <1>4, RecordFields
  <2>2. /\ \A v \in Workers : Delivered(v)' <=> Delivered(v) \/ v = w
        /\ ~Delivered(w)
    BY <1>1, <1>3, <1>4 DEF Delivered
  <2>3. "host" \in Workers /\ "snmp" \in Workers
    BY WorkersAssumption
  <2>4. HostWins /\ result' = result
    BY <1>1 DEF IndInv
  <2> QED BY <2>1, <2>2, <2>3, <2>4 DEF HostWins
<1> QED BY <1>5, <1>6, <1>7, <1>8, <1>9, <1>10 DEF IndInv

(* When the channel is closed and drained every result was applied or      *)
(* dropped, and a dropped one makes ctx.Err() non-nil.                     *)
LEMMA SealStep ==
    ASSUME IndInv, Seal
    PROVE  IndInv'
<1> USE DEF Seal, GatherOver, workerVars, channelVars, IndInv
<1>1. /\ snapshot' \in Snapshot /\ snapshot'.scheduler = ContextDone
      /\ snapshot'.round = snapshot.round /\ snapshot'.status = snapshot.status
      /\ snapshot'.memory = snapshot.memory /\ snapshot'.volumes = snapshot.volumes
  BY DEF TypeOK, Snapshot, ContextDone
<1>2. TypeOK'
  BY <1>1 DEF TypeOK
<1>3. \A w \in Workers : worker[w] \in {"applied", "dropped"}
  BY DEF ChannelOK, ClosedOK, AllReturned
<1>4. (RoundJoined /\ ChannelOK /\ ClosedOK)'
  BY <1>3 DEF RoundJoined, ChannelOK, ClosedOK, AllReturned
<1>5. (StatusOK /\ LoopOK /\ NoSilentLoss)'
  BY <1>1 DEF StatusOK, LoopOK, NoSilentLoss
<1>6. HostWins'
  BY <1>1 DEF HostWins, Delivered
<1> QED BY <1>2, <1>4, <1>5, <1>6

LEMMA PublishStep ==
    ASSUME IndInv, Publish
    PROVE  IndInv'
<1> USE DEF Publish, workerVars, channelVars, IndInv
<1>1. (TypeOK /\ RoundJoined /\ ChannelOK /\ ClosedOK /\ HostWins)'
  BY DEF TypeOK, RoundJoined, ChannelOK, ClosedOK, AllReturned, HostWins, Delivered
<1>2. (StatusOK /\ LoopOK)'
  BY DEF TypeOK, Snapshot, StatusOK, LoopOK
<1>3. NoSilentLoss'
  <2>1. \A w \in Workers : worker[w] \in {"applied", "dropped"} \/ worker[w] = "idle"
    BY DEF RoundJoined
  <2>2. \A w \in Workers : worker[w] # "idle"
    BY DEF StatusOK
  <2>3. \A w \in Workers : snapshot.status[w] # "missing" \/ snapshot.scheduler
    BY <2>1, <2>2 DEF StatusOK
  <2> QED BY <2>3 DEF NoSilentLoss
<1> QED BY <1>1, <1>2, <1>3

LEMMA SinkStep ==
    ASSUME IndInv, Sink
    PROVE  IndInv'
<1> USE DEF Sink, workerVars, channelVars, IndInv
<1>1. (TypeOK /\ RoundJoined /\ ChannelOK /\ ClosedOK /\ HostWins)'
  BY DEF TypeOK, Snapshot, RoundJoined, ChannelOK, ClosedOK, AllReturned, HostWins, Delivered
<1>2. (StatusOK /\ LoopOK /\ NoSilentLoss)'
  BY DEF StatusOK, LoopOK, NoSilentLoss
<1> QED BY <1>1, <1>2

(* The other steps: the closer, the return, the environment.               *)
LEMMA QuietStep ==
    ASSUME IndInv, Close \/ Return \/ Tick \/ Expire \/ Shutdown \/ UNCHANGED vars
    PROVE  IndInv'
<1> USE DEF Close, Return, Tick, Expire, Shutdown, vars, runVars, workerVars,
            channelVars, IndInv
<1>1. TypeOK'
  BY DEF TypeOK
<1>2. (RoundJoined /\ ChannelOK /\ ClosedOK)'
  BY DEF RoundJoined, ChannelOK, ClosedOK, AllReturned
<1>3. StatusOK'
  BY DEF TypeOK, StatusOK, ContextDone
<1>4. (LoopOK /\ NoSilentLoss /\ HostWins)'
  BY DEF LoopOK, NoSilentLoss, HostWins, Delivered
<1> QED BY <1>1, <1>2, <1>3, <1>4

LEMMA NextIndInv == IndInv /\ [Next]_vars => IndInv'
<1> SUFFICES ASSUME IndInv, [Next]_vars PROVE IndInv'
  OBVIOUS
<1>1. CASE \E w \in Workers : WorkerStep(w)
  BY <1>1, FinishStep, SendStep, DropStep DEF WorkerStep
<1>2. CASE LoopStep
  BY <1>2, StartRoundStep, ApplyStep, SealStep, PublishStep, SinkStep, QuietStep
     DEF LoopStep
<1>3. CASE Close \/ Tick \/ Expire \/ Shutdown \/ Finished \/ UNCHANGED vars
  BY <1>3, QuietStep DEF Finished
<1> QED BY <1>1, <1>2, <1>3 DEF Next

(* The inductive invariant holds in every behaviour; what follows reads    *)
(* the properties off it.                                                  *)
THEOREM Invariance == Spec => []IndInv
BY InitIndInv, NextIndInv, PTL DEF Spec

THEOREM TypeCorrect == Spec => []TypeOK
<1>1. IndInv => TypeOK
  BY DEF IndInv
<1> QED BY <1>1, Invariance, PTL

(* No goroutine outlives its round (host.go:479 reads prevNet unlocked).   *)
THEOREM RoundsAreJoined == Spec => []RoundJoined
<1>1. IndInv => RoundJoined
  BY DEF IndInv
<1> QED BY <1>1, Invariance, PTL

(* A published snapshot accounts for every worker or says it was cut short.*)
THEOREM LossIsReported == Spec => []NoSilentLoss
<1>1. IndInv => NoSilentLoss
  BY DEF IndInv
<1> QED BY <1>1, Invariance, PTL

(* Memory and volumes do not depend on who answers first, for the host.    *)
THEOREM HostHasPrecedence == Spec => []HostWins
<1>1. IndInv => HostWins
  BY DEF IndInv
<1> QED BY <1>1, Invariance, PTL

-----------------------------------------------------------------------------
(* Every step of the loop is a step of the feed, or invisible in it.       *)
LEMMA FeedInitial == Init => Feed!FeedInit
<1> SUFFICES ASSUME Init PROVE Feed!FeedInit
  OBVIOUS
<1>1. /\ latest.round = 0 /\ latest.scheduler = FALSE
      /\ \A w \in Workers : latest.status[w] = "missing"
  BY DEF Init, NewSnapshot
<1>2. {w \in Workers : latest.status[w] # "missing"} = {}
  BY <1>1
<1> QED BY <1>1, <1>2 DEF Init, Feed!FeedInit

LEMMA FeedStep == IndInv /\ [Next]_vars => [Feed!FeedNext]_(Feed!feedVars)
<1> SUFFICES ASSUME IndInv, [Next]_vars PROVE [Feed!FeedNext]_(Feed!feedVars)
  OBVIOUS
<1> USE DEF Feed!feedVars
<1>1. CASE \E w \in Workers : WorkerStep(w)
  BY <1>1 DEF WorkerStep, Finish, Send, Drop, runVars
<1>2. CASE FirstRound \/ TickRound
  BY <1>2 DEF FirstRound, TickRound, StartRound
<1>3. CASE Apply \/ Close \/ Expire \/ Shutdown \/ Tick \/ Finished \/ UNCHANGED vars
  BY <1>3 DEF Apply, Close, Expire, Shutdown, Tick, Finished, vars, runVars
<1>4. CASE Seal
  BY <1>4 DEF Seal
<1>5. CASE Publish
  <2>1. /\ pc # "returned" /\ pc' # "returned" /\ sunk' = sunk
        /\ sunk = latest.round /\ latest' = snapshot
        /\ latest'.round = latest.round + 1
        /\ latest'.scheduler \in BOOLEAN
    BY <1>5 DEF Publish, IndInv, LoopOK, TypeOK, Snapshot
  <2>2. latest'.scheduler \/ \A w \in Workers : latest'.status[w] # "missing"
    BY <1>5, PublishStep, <2>1 DEF IndInv, NoSilentLoss, TypeOK, Snapshot
  <2>3. Feed!FeedPublish
    BY <2>1, <2>2 DEF Feed!FeedPublish
  <2> QED BY <2>3 DEF Feed!FeedNext
<1>6. CASE Sink
  <2>1. Feed!FeedSink
    BY <1>6 DEF Sink, IndInv, LoopOK, TypeOK, Snapshot, Feed!FeedSink
  <2> QED BY <2>1 DEF Feed!FeedNext
<1>7. CASE Return
  <2>1. Feed!FeedStop
    BY <1>7 DEF Return, IndInv, LoopOK, Feed!FeedStop
  <2> QED BY <2>1 DEF Feed!FeedNext
<1> QED BY <1>1, <1>2, <1>3, <1>4, <1>5, <1>6, <1>7 DEF Next, LoopStep

(* Readers see snapshots one after the other, each complete or marked, and *)
(* the sink is handed each of them exactly once before the next.           *)
THEOREM LoopImplementsFeed == Spec => Feed!FeedSafety
BY FeedInitial, FeedStep, Invariance, PTL DEF Spec, Feed!FeedSafety
=============================================================================
