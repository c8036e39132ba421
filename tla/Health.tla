-------------------------------- MODULE Health --------------------------------
(***************************************************************************)
(* The timing of the sampling loop, and the health check that judges it:   *)
(* Run and Collect of collector.go seen with a clock, and /api/health of   *)
(* server.go.                                                              *)
(*                                                                         *)
(* A round lasts as long as its slowest worker, which the deadline of the  *)
(* round does not interrupt; what a round then has to show is the subject  *)
(* of Collector, and what a shutdown does to it that of Service.  A        *)
(* snapshot bears the time at which its round began and is published when  *)
(* the round ends, so it is old already when it appears.  A worker may     *)
(* hang, for a while or for good.  Ages are monotonic: time.Since and the  *)
(* ticker do not follow steps of the wall clock.  Time passes in units of  *)
(* a second and not beyond a moment at which something must happen.        *)
(***************************************************************************)
EXTENDS Integers

CONSTANTS
    Interval,       \* COLLECT_INTERVAL
    Limit,          \* the age at which the health check fails (2 minutes)
    MaxRun          \* the longest a worker takes, unless it hangs

ASSUME TimesAssumption ==
    /\ Interval \in Nat \ {0} /\ MaxRun \in Nat
    /\ Limit \in Nat \ {0}

VARIABLES
    pc,             \* "sampling", "waiting" for a tick, or "hung" in a round
    elapsed,        \* time since the current or last round began
    age,            \* time since the Timestamp of c.latest
    beat,           \* time until the ticker fires, or Off before it exists
    pending,        \* a tick is in the ticker's channel
    stalled         \* auxiliary: the round under way hangs, or the one hung
                    \* that c.latest is of

vars == <<pc, elapsed, age, beat, pending, stalled>>

Off == -1

(* Bound: times are counted no further than this.                          *)
Horizon == Limit + Interval + MaxRun

Older(t) == IF t < Horizon THEN t + 1 ELSE t

(* Mutant: the check asks only whether there is a snapshot.                *)
HealthyIfAny == age >= 0

(* Mutant: two intervals are taken to be enough for a cycle.               *)
HealthyForTwo == age < 2 * Interval

(* GET /api/health                                                         *)
Healthy == age < Limit

-----------------------------------------------------------------------------
(* NewCollector stamps an empty snapshot, and the first round begins.      *)
Init ==
    /\ pc = "sampling"
    /\ elapsed = 0
    /\ age = 0
    /\ beat = Off
    /\ pending = FALSE
    /\ stalled = FALSE

(* Time passes, unless a tick is due, or waited for, or a worker is ready. *)
Pass ==
    /\ beat # 0
    /\ ~(pc = "waiting" /\ pending)
    /\ ~(pc = "sampling" /\ elapsed = MaxRun)
    /\ elapsed' = Older(elapsed)
    /\ age' = Older(age)
    /\ beat' = IF beat = Off THEN Off ELSE beat - 1
    /\ UNCHANGED <<pc, pending, stalled>>

(* The ticker fires; a tick that finds another one is lost.                *)
Fire ==
    /\ beat = 0
    /\ beat' = Interval
    /\ pending' = TRUE
    /\ UNCHANGED <<pc, elapsed, age, stalled>>

(* Mutant: a round that hung ends the loop.                                *)
FinishOrReturn ==
    /\ pc \in {"sampling", "hung"}
    /\ pc' = IF pc = "hung" THEN "returned" ELSE "waiting"
    /\ stalled' = (pc = "hung")
    /\ age' = elapsed
    /\ beat' = IF beat = Off THEN Interval ELSE beat
    /\ UNCHANGED <<elapsed, pending>>

(* The slowest worker returns, perhaps after it hung: the snapshot of the  *)
(* round is published, however old it is.  The first round is followed by  *)
(* the creation of the ticker.                                             *)
Finish ==
    /\ pc \in {"sampling", "hung"}
    /\ pc' = "waiting"
    /\ stalled' = (pc = "hung")
    /\ age' = elapsed
    /\ beat' = IF beat = Off THEN Interval ELSE beat
    /\ UNCHANGED <<elapsed, pending>>

(* The loop takes a tick, and the next round begins.                       *)
Begin ==
    /\ pc = "waiting"
    /\ pending
    /\ pc' = "sampling"
    /\ elapsed' = 0
    /\ pending' = FALSE
    /\ UNCHANGED <<age, beat, stalled>>

(* A worker hangs in a system call: a statfs on a dead mount, say.         *)
Hang ==
    /\ pc = "sampling"
    /\ pc' = "hung"
    /\ stalled' = TRUE
    /\ UNCHANGED <<elapsed, age, beat, pending>>

Next == Pass \/ Fire \/ Finish \/ Begin \/ Hang

(* Time goes on, and so does what is due; only a worker that hangs need    *)
(* not return.                                                             *)
Spec ==
    /\ Init /\ [][Next]_vars
    /\ WF_vars(Pass) /\ WF_vars(Fire) /\ WF_vars(Begin)
    /\ WF_vars(pc = "sampling" /\ Finish)

-----------------------------------------------------------------------------
(* Correctness                                                             *)

TypeOK ==
    /\ pc \in {"sampling", "waiting", "hung"}
    /\ elapsed \in 0 .. Horizon
    /\ age \in 0 .. Horizon
    /\ beat \in {Off} \cup 0 .. Interval
    /\ pending \in BOOLEAN
    /\ stalled \in BOOLEAN

(* The service is healthy as long as its sampling goes on: at no moment of *)
(* a cycle, with the round before as early and the round under way as late *)
(* as they can be, does the age of the snapshot reach the limit            *)
(* (README.md:135).  It is so for the intervals that leave room for two    *)
(* rounds, Interval + 2 * MaxRun < Limit; README.md:119 allows longer ones.*)
HealthyWhileSampling == ~stalled => Healthy

(* A loop that stalls for good is noticed, and stays so, whatever hung or  *)
(* recovered before (server.go:60).                                        *)
StallDetected == <>[](pc = "hung") => <>[]~Healthy

(* A loop whose workers have stopped hanging is healthy again in the end,  *)
(* and stays so: the round that hung is published, old as it is, and the   *)
(* ticker, which went on meanwhile, or starts now, brings the next one     *)
(* (collector.go:139-162).                                                 *)
RecoversAfterStall == <>[](pc # "hung") => <>[]Healthy
=============================================================================
