-------------------------------- MODULE WAL ---------------------------------
(***************************************************************************)
(* The file write-ahead log (wal/wal.go): the queue that puts concurrent    *)
(* log requests into transaction order, the run loop that batches them into *)
(* the log store, and truncation.                                           *)
(*                                                                         *)
(* This module has the state of a FileWAL and its operations.  Who calls    *)
(* the operations is up to the module that extends this one: WALClients     *)
(* (arbitrary callers) or DB (the database).                                *)
(*                                                                         *)
(* The log store is a library.  It is a function from the indexes it holds  *)
(* to their data, always an interval: an append must continue it, any index *)
(* may be appended to an empty one, and a truncation past its last index    *)
(* empties it.                                                              *)
(***************************************************************************)
EXTENDS Integers, FiniteSets, FiniteSetsExt

CONSTANT BatchLimit    \* segmentSize, in records

ASSUME BatchLimitAssumption == BatchLimit \in Nat \ {0}

VARIABLES
    log,               \* FileWAL.log, the log store on disk
    queue,             \* protected.queue: records with fields tx and data
    nextTx,            \* protected.nextTx
    truncateTx,        \* protected.truncateTx, 0 if no truncation is queued
    rpc,               \* where the run loop is
    batch,             \* run: the collected batch, a function on its indexes
    taken,             \* run: the local variable truncateTx
    closing,           \* has Close cancelled the run loop's context
    idle               \* is lastBatchWrite more than closeTimeout ago

protected == <<queue, nextTx, truncateTx>>
runLoop   == <<rpc, batch, taken, closing, idle>>
walVars   == <<log, protected, runLoop>>

RunPCs == {"new", "select", "store", "truncate", "adjust", "exited"}

Empty == [i \in {} |-> i]

FirstIndex(l) == IF DOMAIN l = {} THEN 0 ELSE Min(DOMAIN l)
LastIndex(l)  == IF DOMAIN l = {} THEN 0 ELSE Max(DOMAIN l)

\* the log store's methods
Appendable(l, b)    == DOMAIN l = {} \/ DOMAIN b = {} \/ Min(DOMAIN b) = LastIndex(l) + 1
StoreLogs(l, b)     == [i \in DOMAIN l \union DOMAIN b |-> IF i \in DOMAIN b THEN b[i] ELSE l[i]]
TruncateFront(l, n) == [i \in {j \in DOMAIN l : j >= n} |-> l[i]]

\* Open on the log store l: the run loop is not started yet
Open(l) ==
    /\ log' = l
    /\ queue' = {}
    /\ nextTx' = LastIndex(l) + 1
    /\ truncateTx' = 0
    /\ rpc' = "new"
    /\ batch' = Empty
    /\ taken' = 0
    /\ closing' = FALSE
    /\ idle' = FALSE

RunAsync ==
    /\ rpc = "new"
    /\ rpc' = "select"
    /\ UNCHANGED <<log, protected, batch, taken, closing, idle>>
-----------------------------------------------------------------------------
(***************************************************************************)
(* The operations callers use.                                              *)
(***************************************************************************)
Log(t, d) ==
    /\ queue' = queue \union {[tx |-> t, data |-> d]}
    /\ UNCHANGED <<log, nextTx, truncateTx, runLoop>>

(***************************************************************************)
(* LogRecord drops a transaction below nextTx at once.  The check and the   *)
(* push are two critical sections; a request that turns stale in between is *)
(* pushed and then dropped by Tick, which comes to the same.                *)
(***************************************************************************)
LogRecord(t, d) ==
    IF t < nextTx THEN UNCHANGED walVars ELSE Log(t, d)

Truncate(t) ==
    /\ truncateTx' = IF t > truncateTx THEN t ELSE truncateTx
    /\ UNCHANGED <<log, queue, nextTx, runLoop>>

Reset(t) ==
    /\ queue' = {}
    /\ nextTx' = t
    /\ log' = Empty
    /\ UNCHANGED <<truncateTx, runLoop>>

\* the log store fails to truncate: the queue and nextTx are reset already
ResetFails(t) ==
    /\ queue' = {}
    /\ nextTx' = t
    /\ UNCHANGED <<log, truncateTx, runLoop>>

Close ==
    /\ rpc # "new"
    /\ ~closing
    /\ closing' = TRUE
    /\ UNCHANGED <<log, protected, rpc, batch, taken, idle>>

\* the transactions that Replay(t, handler) hands to the handler, in order
ReplayFrom(t)  == IF t = 0 \/ t < FirstIndex(log) THEN FirstIndex(log) ELSE t
ReplayRange(t) == IF DOMAIN log = {} THEN {} ELSE ReplayFrom(t)..LastIndex(log)
-----------------------------------------------------------------------------
(***************************************************************************)
(* The run loop.                                                            *)
(***************************************************************************)
Pending == {e.tx : e \in queue}

\* the transactions of the batch that is being stored
InFlight == IF rpc = "store" THEN DOMAIN batch ELSE {}

\* how far the requests in the queue follow on from nextTx
BatchEnd == Max({m \in nextTx..(nextTx + BatchLimit) : nextTx..(m - 1) \subseteq Pending})

Collected(m) == [t \in nextTx..(m - 1) |-> (CHOOSE e \in queue : e.tx = t).data]

\* mutant: a request that is already below nextTx blocks the queue
TickKeepsStale ==
    LET m == IF \E t \in Pending : t < nextTx THEN nextTx ELSE BatchEnd IN
    /\ rpc = "select"
    /\ queue' = {e \in queue : e.tx \notin nextTx..(m - 1)}
    /\ nextTx' = m
    /\ batch' = Collected(m)
    /\ taken' = truncateTx
    /\ truncateTx' = 0
    /\ rpc' = IF m = nextTx /\ truncateTx = 0 THEN "select" ELSE "store"
    /\ UNCHANGED <<log, closing, idle>>

\* mutant: whatever is queued is logged, without waiting for the gaps to fill
TickSkipsGaps ==
    LET m == IF Pending = {} THEN nextTx ELSE Max(Pending) + 1 IN
    /\ rpc = "select"
    /\ queue' = {}
    /\ nextTx' = m
    /\ batch' = [t \in {u \in Pending : u >= nextTx} |-> (CHOOSE e \in queue : e.tx = t).data]
    /\ taken' = truncateTx
    /\ truncateTx' = 0
    /\ rpc' = IF m = nextTx /\ truncateTx = 0 THEN "select" ELSE "store"
    /\ UNCHANGED <<log, closing, idle>>

\* a tick, under the lock: requests below nextTx are dropped, those that follow
\* on from nextTx are collected, and the queued truncation is taken
Tick ==
    LET m == BatchEnd IN
    /\ rpc = "select"
    /\ queue' = {e \in queue : e.tx >= m}
    /\ nextTx' = m
    /\ batch' = Collected(m)
    /\ taken' = truncateTx
    /\ truncateTx' = 0
    /\ rpc' = IF m = nextTx /\ truncateTx = 0 THEN "select" ELSE "store"
    /\ UNCHANGED <<log, closing, idle>>

\* StoreLogs: what does not continue the log is refused
Store ==
    /\ rpc = "store"
    /\ log' = IF Appendable(log, batch) THEN StoreLogs(log, batch) ELSE log
    /\ rpc' = "truncate"
    /\ UNCHANGED <<protected, batch, taken, closing, idle>>

\* an error of StoreLogs is only logged
StoreFails ==
    /\ rpc = "store"
    /\ batch # Empty
    /\ rpc' = "truncate"
    /\ UNCHANGED <<log, protected, batch, taken, closing, idle>>

\* the end of an iteration that had something to do
EndTick ==
    /\ rpc' = "select"
    /\ batch' = Empty
    /\ taken' = 0
    /\ idle' = FALSE

TruncateLog ==
    /\ rpc = "truncate"
    /\ IF taken = 0
       THEN EndTick /\ UNCHANGED log
       ELSE /\ log' = TruncateFront(log, taken)
            /\ rpc' = "adjust"
            /\ UNCHANGED <<batch, taken, idle>>
    /\ UNCHANGED <<protected, closing>>

\* an error of TruncateFront is only logged, and nextTx stays
TruncateFails ==
    /\ rpc = "truncate"
    /\ taken # 0
    /\ EndTick
    /\ UNCHANGED <<log, protected, closing>>

\* mutant: requests that a full truncation does not cover are removed as well
AdjustDropsAll ==
    /\ rpc = "adjust"
    /\ IF taken > nextTx
       THEN nextTx' = taken + 1 /\ queue' = {}
       ELSE UNCHANGED <<queue, nextTx>>
    /\ EndTick
    /\ UNCHANGED <<log, truncateTx, closing>>

\* after a truncation past the last record, under the lock
Adjust ==
    /\ rpc = "adjust"
    /\ IF taken > nextTx
       THEN /\ nextTx' = taken + 1
            /\ queue' = {e \in queue : e.tx > taken}
       ELSE UNCHANGED <<queue, nextTx>>
    /\ EndTick
    /\ UNCHANGED <<log, truncateTx, closing>>

\* mutant: the run loop never gives up on a queue that does not drain
DoneNeverForced ==
    /\ rpc = "select"
    /\ closing
    /\ queue = {}
    /\ rpc' = "exited"
    /\ UNCHANGED <<log, protected, batch, taken, closing, idle>>

\* the context is done: exit when the queue is empty or the timeout has passed
Done ==
    /\ rpc = "select"
    /\ closing
    /\ queue = {} \/ idle
    /\ rpc' = "exited"
    /\ UNCHANGED <<log, protected, batch, taken, closing, idle>>

\* closeTimeout passes since the last batch was written
Elapse ==
    /\ rpc \notin {"new", "exited"}
    /\ ~idle
    /\ idle' = TRUE
    /\ UNCHANGED <<log, protected, rpc, batch, taken, closing>>

RunStep == Tick \/ Store \/ TruncateLog \/ Adjust \/ Done
=============================================================================
