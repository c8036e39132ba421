------------------------------- MODULE Service -------------------------------
(***************************************************************************)
(* The process: cmd/qnap-status-lite/main.go, which starts the sampling    *)
(* loop and the HTTP server over one history store, waits for a signal,    *)
(* drains the server for at most eight seconds, closes the store and ends. *)
(*                                                                         *)
(* Nothing waits for the loop: it may be in the middle of a round, before  *)
(* or in Add, or starting another round, when the store is closed and when *)
(* main returns.  The container is started again after any end.            *)
(*                                                                         *)
(* A snapshot is known by its life of the process and its round.  Rounds   *)
(* are seen from outside only (Collector has their inside), and so are     *)
(* transactions (HistoryStore has theirs).                                 *)
(***************************************************************************)
EXTENDS Integers, FiniteSets

CONSTANTS
    Clients,        \* the connections to the HTTP server
    MaxLife,        \* bound: starts of the process
    MaxRound        \* bound: rounds in a life

ASSUME BoundsAssumption == MaxLife \in Nat /\ MaxRound \in Nat \ {0}

VARIABLES
    main,           \* "down", "running", "draining", "closing", "closed"
    life,           \* number of starts
    store,          \* the bbolt file is "open" or "closed" in this process
    loop,           \* Run: "off", "sampling", "published", "writing",
                    \*      "waiting", "returned"
    latest,         \* the round of c.latest in this life, 0 before the first
    logged,         \* the snapshots whose points are in the file
    reported,       \* the snapshots whose Add ended in a logged error
    published,      \* the snapshots that were ever published
    client,         \* per connection: "idle", "asking", "reading",
                    \*      "answered", "refused"
    overtime        \* the eight seconds of the drain have passed

httpVars == <<client>>
vars == <<main, life, store, loop, latest, logged, reported, published,
          client, overtime>>

Alive == main # "down"
Snap == <<life, latest>>

-----------------------------------------------------------------------------
Init ==
    /\ main = "down"
    /\ life = 0
    /\ store = "closed"
    /\ loop = "off"
    /\ latest = 0
    /\ logged = {}
    /\ reported = {}
    /\ published = {}
    /\ client = [c \in Clients |-> "idle"]
    /\ overtime = FALSE

(* The store opens, the collector has an empty snapshot, the loop and the  *)
(* server run.  (Without the lock or the bucket main is down again.)       *)
Launch ==
    /\ main = "down"
    /\ life < MaxLife
    /\ main' = "running"
    /\ life' = life + 1
    /\ store' = "open"
    /\ loop' = "sampling"
    /\ latest' = 0
    /\ client' = [c \in Clients |-> "idle"]
    /\ overtime' = FALSE
    /\ UNCHANGED <<logged, reported, published>>

-----------------------------------------------------------------------------
(* The loop                                                                *)

(* The end of Collect.                                                     *)
Publish ==
    /\ Alive /\ loop = "sampling"
    /\ loop' = "published"
    /\ latest' = latest + 1
    /\ published' = published \cup {<<life, latest + 1>>}
    /\ UNCHANGED <<main, life, store, logged, reported, httpVars, overtime>>

(* store.Add begins its transaction.                                       *)
BeginAdd ==
    /\ Alive /\ loop = "published" /\ store = "open"
    /\ loop' = "writing"
    /\ UNCHANGED <<main, life, store, latest, logged, reported, published,
                   httpVars, overtime>>

Commit ==
    /\ Alive /\ loop = "writing"
    /\ loop' = "waiting"
    /\ logged' = logged \cup {Snap}
    /\ UNCHANGED <<main, life, store, latest, reported, published, httpVars,
                   overtime>>

(* Mutant: the sink ignores the error of Add.                              *)
AddFailsSilently ==
    /\ Alive
    /\ loop = "writing" \/ (loop = "published" /\ store = "closed")
    /\ loop' = "waiting"
    /\ UNCHANGED <<main, life, store, latest, logged, reported, published,
                   httpVars, overtime>>

(* The write fails, or the store is closed already; the sink logs it.      *)
AddFails ==
    /\ Alive
    /\ loop = "writing" \/ (loop = "published" /\ store = "closed")
    /\ loop' = "waiting"
    /\ reported' = reported \cup {Snap}
    /\ UNCHANGED <<main, life, store, latest, logged, published, httpVars,
                   overtime>>

(* A tick; it may win over the cancelled context.                          *)
NextRound ==
    /\ Alive /\ loop = "waiting" /\ latest < MaxRound
    /\ loop' = "sampling"
    /\ UNCHANGED <<main, life, store, latest, logged, reported, published,
                   httpVars, overtime>>

LoopReturns ==
    /\ loop = "waiting" /\ main \notin {"down", "running"}
    /\ loop' = "returned"
    /\ UNCHANGED <<main, life, store, latest, logged, reported, published,
                   httpVars, overtime>>

-----------------------------------------------------------------------------
(* The server                                                              *)

(* A request for the history arrives; draining, no new one is accepted.    *)
Ask(c) ==
    /\ main = "running" /\ client[c] = "idle"
    /\ client' = [client EXCEPT ![c] = "asking"]
    /\ UNCHANGED <<main, life, store, loop, latest, logged, reported,
                   published, overtime>>

(* Its read transaction begins, or is refused, which is answered by 500.   *)
BeginRead(c) ==
    /\ Alive /\ client[c] = "asking"
    /\ client' = [client EXCEPT ![c] = IF store = "open" THEN "reading"
                                                         ELSE "refused"]
    /\ UNCHANGED <<main, life, store, loop, latest, logged, reported,
                   published, overtime>>

(* Query ends its transaction before the first byte is written.            *)
EndRead(c) ==
    /\ Alive /\ client[c] = "reading"
    /\ client' = [client EXCEPT ![c] = "answered"]
    /\ UNCHANGED <<main, life, store, loop, latest, logged, reported,
                   published, overtime>>

(* The client has taken the answer; it may never do so.                    *)
Take(c) ==
    /\ Alive /\ client[c] \in {"answered", "refused"}
    /\ client' = [client EXCEPT ![c] = "idle"]
    /\ UNCHANGED <<main, life, store, loop, latest, logged, reported,
                   published, overtime>>

-----------------------------------------------------------------------------
(* The end                                                                 *)

Signal ==
    /\ main = "running"
    /\ main' = "draining"
    /\ UNCHANGED <<life, store, loop, latest, logged, reported, published,
                   httpVars, overtime>>

Overtime ==
    /\ main = "draining" /\ ~overtime
    /\ overtime' = TRUE
    /\ UNCHANGED <<main, life, store, loop, latest, logged, reported,
                   published, httpVars>>

(* Mutant: the drain has no limit.                                         *)
DrainedWhenIdle ==
    /\ main = "draining"
    /\ \A c \in Clients : client[c] = "idle"
    /\ main' = "closing"
    /\ UNCHANGED <<life, store, loop, latest, logged, reported, published,
                   httpVars, overtime>>

(* Mutant: the connections are closed without a drain.                     *)
DrainedAtOnce ==
    /\ main = "draining"
    /\ main' = "closing"
    /\ UNCHANGED <<life, store, loop, latest, logged, reported, published,
                   httpVars, overtime>>

(* server.Shutdown returns: every connection is idle, or time is up.       *)
Drained ==
    /\ main = "draining"
    /\ overtime \/ \A c \in Clients : client[c] = "idle"
    /\ main' = "closing"
    /\ UNCHANGED <<life, store, loop, latest, logged, reported, published,
                   httpVars, overtime>>

(* The deferred Close waits for the transactions under way.                *)
Close ==
    /\ main = "closing"
    /\ loop # "writing"
    /\ \A c \in Clients : client[c] # "reading"
    /\ main' = "closed"
    /\ store' = "closed"
    /\ UNCHANGED <<life, loop, latest, logged, reported, published, httpVars,
                   overtime>>

(* main returns, and whatever still runs is gone; the lock is free.        *)
Gone ==
    /\ main' = "down"
    /\ store' = "closed"
    /\ loop' = "off"
    /\ latest' = 0
    /\ client' = [c \in Clients |-> "idle"]
    /\ overtime' = FALSE
    /\ UNCHANGED <<life, logged, reported, published>>

Exit == main = "closed" /\ Gone

(* log.Fatalf of the server, a kill, a loss of power: any time.            *)
Crash == Alive /\ Gone

(* Bound: after its last life the process is not modelled any further.     *)
Over == main = "down" /\ life = MaxLife /\ UNCHANGED vars

Loop == Publish \/ BeginAdd \/ Commit \/ AddFails \/ NextRound \/ LoopReturns
Read(c) == BeginRead(c) \/ EndRead(c)
Stop == Drained \/ Close \/ Exit

Next ==
    \/ Launch \/ Loop \/ Signal \/ Overtime \/ Stop \/ Crash \/ Over
    \/ \E c \in Clients : Ask(c) \/ Read(c) \/ Take(c)

(* Transactions end, the time limit is kept, main goes on.  Nothing is     *)
(* assumed of the clients, of signals or of the loop outside of Add.       *)
Fairness ==
    /\ WF_vars(Commit \/ (loop = "writing" /\ AddFails))
    /\ \A c \in Clients : WF_vars(EndRead(c))
    /\ WF_vars(Overtime)
    /\ SF_vars(Close) /\ WF_vars(Drained) /\ WF_vars(Exit)

Spec == Init /\ [][Next]_vars /\ Fairness

-----------------------------------------------------------------------------
(* Correctness                                                             *)

Snaps == (1 .. MaxLife) \X (1 .. MaxRound)

TypeOK ==
    /\ main \in {"down", "running", "draining", "closing", "closed"}
    /\ life \in 0 .. MaxLife
    /\ store \in {"open", "closed"}
    /\ main = "running" => store = "open"
    /\ loop \in {"off", "sampling", "published", "writing", "waiting", "returned"}
    /\ latest \in 0 .. MaxRound
    /\ logged \subseteq Snaps /\ reported \subseteq Snaps /\ published \subseteq Snaps
    /\ client \in [Clients -> {"idle", "asking", "reading", "answered", "refused"}]
    /\ overtime \in BOOLEAN

(* A published snapshot is in the history, or its loss is in the log of    *)
(* the process, or it is the last one of a life that ended just then:      *)
(* stops and crashes cost at most one silent point each (main.go:38-42).   *)
AtMostLastLost ==
    \A s \in published \ (logged \cup reported) :
        \A t \in published : t[1] = s[1] => t[2] <= s[2]

(* No reader is refused as long as it is served within the time limit of   *)
(* the drain: the store is closed only after Shutdown (main.go:27, 52).    *)
RefusedOnlyOvertime ==
    (\E c \in Clients : client[c] = "refused") => overtime

(* A signal ends the process, whatever the clients do and whatever the     *)
(* loop is in the middle of (main.go:49-53).                               *)
SignalEnds == (main = "draining") ~> (main = "down")
=============================================================================
