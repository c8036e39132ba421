----------------------------- MODULE HistoryStore ----------------------------
(***************************************************************************)
(* The history of internal/history/store.go, with the part of bbolt it     *)
(* relies on and the reader of internal/webui/server.go.                   *)
(*                                                                         *)
(* Every snapshot the sampling loop hands over becomes one point, keyed by *)
(* the second in which its round started, in one bbolt transaction that    *)
(* also walks from the oldest point on and deletes what is older than the  *)
(* retention.  Keys are unsigned 64-bit numbers in the code and numbers    *)
(* below Word here.  Points are represented by their keys; two rounds in   *)
(* one second share a key, and the later one replaces the earlier.         *)
(*                                                                         *)
(* The wall clock advances, and may be stepped in either direction.        *)
(***************************************************************************)
EXTENDS Integers, FiniteSets

CONSTANTS
    Word,           \* the number of values of a key (2^64 in the code)
    Retention,      \* HISTORY_RETENTION
    MaxLimit,       \* the largest page a query may ask for (10000)
    DefaultLimit,   \* the page of a query that asks for none, or too much
    MaxHours,       \* the largest window of /api/history (31 days)
    DefaultHours,   \* its window when none, or a larger one, is asked for
    Windows,        \* the windows the dashboard offers (1, 6, 24 hours, 7 days)
    Times,          \* bound: the readings of the wall clock
    Start,          \* the first reading
    MaxFaults       \* bound: clock steps, failed writes, crashes and stops

ASSUME WordAssumption == Word \in Nat \ {0} /\ Times \subseteq 0 .. Word - 1
ASSUME TimesAssumption == Start \in Times
ASSUME RetentionAssumption == Retention \in Nat \ {0}
ASSUME QueryAssumption ==
    MaxLimit \in Nat \ {0} /\ MaxHours \in Nat /\ Windows \subseteq 1 .. MaxHours

VARIABLES
    now,            \* the wall clock, in seconds
    state,          \* the process is "down", has the store "open" or "closed"
    stamp,          \* the Timestamp of a snapshot on its way to Add, or None
    db,             \* the committed keys of the bucket
    phase,          \* the write transaction: "none", "written", "pruning"
    work,           \* the keys as the write transaction sees them
    asOf,           \* the time.Now() of the running or last Add
    cursor,         \* the key the cursor is on, or None
    faults          \* number of faults so far

txVars == <<phase, work, cursor>>
vars == <<now, state, stamp, db, phase, work, asOf, cursor, faults>>

None == -1

UInt(n) == n % Word     \* the conversion uint64(n)

(* Where a cursor goes for the first key of S: there is one, or None.      *)
FirstKeys(S) == IF S = {} THEN {None} ELSE {k \in S : \A j \in S : k <= j}

After(S, k) == {j \in S : j > k}

(* bbolt leaves open where a cursor stands after Delete: Next then moves   *)
(* to the successor, or steps over it when the page was already rewritten. *)
NextKeys(S, k) ==
    LET next == FirstKeys(After(S, k))
    IN  next \cup UNION {FirstKeys(After(S, j)) : j \in next \ {None}}

Cutoff == UInt(asOf - Retention)

-----------------------------------------------------------------------------
(* Reading: each read transaction sees one committed state.                *)

(* Mutant: the largest page allowed is treated as too large.               *)
QueryClampedEarly(since, limit) ==
    LET page  == IF limit < 1 \/ limit >= MaxLimit THEN DefaultLimit ELSE limit
        found == {k \in db : k >= UInt(since)}
    IN  {k \in found : Cardinality({j \in found : j < k}) < page}

Query(since, limit) ==
    LET page  == IF limit < 1 \/ limit > MaxLimit THEN DefaultLimit ELSE limit
        found == {k \in db : k >= UInt(since)}
    IN  {k \in found : Cardinality({j \in found : j < k}) < page}

(* GET /api/history?hours=h                                                *)
HistoryPoints(h) ==
    LET hours == IF h < 1 \/ h > MaxHours THEN DefaultHours ELSE h
    IN  Query(now - hours, MaxLimit)

-----------------------------------------------------------------------------
Init ==
    /\ now = Start
    /\ state = "down"
    /\ stamp = None
    /\ db = {}
    /\ phase = "none"
    /\ work = {}
    /\ asOf = Start
    /\ cursor = None
    /\ faults = 0

EndTransaction ==
    /\ phase' = "none"
    /\ work' = {}
    /\ cursor' = None

(* The file lock is free and the bucket is there: the service starts.      *)
Open ==
    /\ state = "down"
    /\ state' = "open"
    /\ UNCHANGED <<now, stamp, db, txVars, asOf, faults>>

(* A round starts; its snapshot reaches the sink at some later time.       *)
Sample ==
    /\ state # "down"
    /\ stamp = None
    /\ stamp' = now
    /\ UNCHANGED <<now, state, db, txVars, asOf, faults>>

(* Mutant: the point is committed in a transaction of its own.             *)
PutAlone ==
    /\ state = "open"
    /\ stamp # None
    /\ phase = "none"
    /\ phase' = "written"
    /\ work' = db \cup {UInt(stamp)}
    /\ db' = work'
    /\ UNCHANGED <<now, state, stamp, asOf, cursor, faults>>

(* Add: the write transaction begins with the Put of the new point.        *)
Put ==
    /\ state = "open"
    /\ stamp # None
    /\ phase = "none"
    /\ phase' = "written"
    /\ work' = db \cup {UInt(stamp)}
    /\ UNCHANGED <<now, state, stamp, db, asOf, cursor, faults>>

(* Mutant: the walk starts at the new point.                               *)
ReadCutoffAtNew ==
    /\ phase = "written"
    /\ asOf' = now
    /\ cursor' = UInt(stamp)
    /\ phase' = "pruning"
    /\ UNCHANGED <<now, state, stamp, db, work, faults>>

(* The cutoff is taken from the clock, and the cursor goes to the first key. *)
ReadCutoff ==
    /\ phase = "written"
    /\ asOf' = now
    /\ cursor' \in FirstKeys(work)
    /\ phase' = "pruning"
    /\ UNCHANGED <<now, state, stamp, db, work, faults>>

(* Mutant: the point at the cutoff goes too.                               *)
PruneAtCutoff ==
    /\ phase = "pruning"
    /\ cursor # None
    /\ cursor <= Cutoff
    /\ work' = work \ {cursor}
    /\ cursor' \in NextKeys(work, cursor)
    /\ UNCHANGED <<now, state, stamp, db, phase, asOf, faults>>

(* Mutant: the loop stops after one deletion.                              *)
PruneOne ==
    /\ phase = "pruning"
    /\ cursor # None
    /\ cursor < Cutoff
    /\ work' = work \ {cursor}
    /\ cursor' = None
    /\ UNCHANGED <<now, state, stamp, db, phase, asOf, faults>>

(* One turn of the loop: delete the key the cursor is on, and advance.     *)
Prune ==
    /\ phase = "pruning"
    /\ cursor # None
    /\ cursor < Cutoff
    /\ work' = work \ {cursor}
    /\ cursor' \in NextKeys(work, cursor)
    /\ UNCHANGED <<now, state, stamp, db, phase, asOf, faults>>

Commit ==
    /\ phase = "pruning"
    /\ cursor = None \/ cursor >= Cutoff
    /\ db' = work
    /\ stamp' = None
    /\ EndTransaction
    /\ UNCHANGED <<now, state, asOf, faults>>

(* After Close, Update returns an error: the snapshot is logged and lost.  *)
AddRefused ==
    /\ state = "closed"
    /\ stamp # None
    /\ stamp' = None
    /\ UNCHANGED <<now, state, db, txVars, asOf, faults>>

-----------------------------------------------------------------------------
(* Time and faults.                                                        *)

Fault == faults < MaxFaults /\ faults' = faults + 1

(* One second passes.                                                      *)
Tick ==
    /\ now + 1 \in Times
    /\ now' = now + 1
    /\ UNCHANGED <<state, stamp, db, txVars, asOf, faults>>

(* The wall clock is set.                                                  *)
StepClock ==
    /\ Fault
    /\ now' \in Times \ {now}
    /\ UNCHANGED <<state, stamp, db, txVars, asOf>>

(* A Put, a Delete or the commit fails: bbolt rolls the transaction back.  *)
AddFails ==
    /\ Fault
    /\ phase # "none"
    /\ stamp' = None
    /\ EndTransaction
    /\ UNCHANGED <<now, state, db, asOf>>

(* Mutant: Close does not wait for a running write transaction.            *)
CloseAtOnce ==
    /\ Fault
    /\ state = "open"
    /\ state' = "closed"
    /\ UNCHANGED <<now, stamp, db, txVars, asOf>>

(* main returns on a signal: Close waits for a running write transaction.  *)
Close ==
    /\ Fault
    /\ state = "open"
    /\ phase = "none"
    /\ state' = "closed"
    /\ UNCHANGED <<now, stamp, db, txVars, asOf>>

Exit ==
    /\ state = "closed"
    /\ state' = "down"
    /\ stamp' = None
    /\ UNCHANGED <<now, db, txVars, asOf, faults>>

(* The process is killed, in whatever it was doing.                        *)
Crash ==
    /\ Fault
    /\ state # "down"
    /\ state' = "down"
    /\ stamp' = None
    /\ EndTransaction
    /\ UNCHANGED <<now, db, asOf>>

AddStep == Put \/ ReadCutoff \/ Prune \/ Commit \/ AddRefused

Next ==
    \/ Open
    \/ Sample
    \/ AddStep
    \/ Exit
    \/ Tick
    \/ StepClock
    \/ AddFails
    \/ Close
    \/ Crash

(* The service is restarted, rounds follow each other, Add runs to its end.*)
Fairness == WF_vars(Open) /\ WF_vars(Sample) /\ WF_vars(AddStep) /\ WF_vars(Exit)

Spec == Init /\ [][Next]_vars /\ Fairness

-----------------------------------------------------------------------------
(* Correctness                                                             *)

TypeOK ==
    /\ now \in Times
    /\ state \in {"down", "open", "closed"}
    /\ stamp \in Times \cup {None}
    /\ db \subseteq Times
    /\ phase \in {"none", "written", "pruning"}
    /\ work \subseteq Times
    /\ asOf \in Times
    /\ cursor \in Times \cup {None}
    /\ faults \in Nat
    /\ phase # "none" => state = "open" /\ stamp # None

(* A committed point, or one that an Add commits, is missing afterwards    *)
(* only if it is older than the retention at the time Add reads: no crash, *)
(* failed write, restart or clock step takes a younger one (README.md:77   *)
(* and 120).                                                               *)
KeepsRetained ==
    [][LET had == IF Commit THEN db \cup {stamp} ELSE db
       IN  \A k \in had \ db' : k < asOf - Retention]_vars

(* What the history promises.                                              *)
Log == INSTANCE HistoryLog WITH points <- db

(* The store implements it: every change a reader sees is one whole Add.   *)
ImplementsLog == Log!LogSpec

(* A write leaves at most half of the expired points behind, whatever the  *)
(* cursor does after a Delete.                                             *)
PruneHalves ==
    [][db' # db =>
          2 * Cardinality({k \in db' : Log!Expired(k)})
             <= Cardinality({k \in db \cup {stamp} : Log!Expired(k)})]_vars

(* An expired point goes, unless the service stops or the clock is set back.*)
ExpiredPruned ==
    \A k \in Times :
        (k \in db /\ k < now - Retention)
            ~> (k \notin db \/ k >= now - Retention \/ state # "open")

(* The chart of a window reaches its latest point, ...                     *)
ReachesPresent(h) ==
    \A k \in db : k \in now - h .. now => \E j \in HistoryPoints(h) : j >= k

(* ... and so do those of all the windows offered (README.md:31).          *)
QueryReachesPresent == \A h \in Windows : ReachesPresent(h)
=============================================================================
