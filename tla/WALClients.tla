----------------------------- MODULE WALClients -----------------------------
(***************************************************************************)
(* The write-ahead log with arbitrary callers: every transaction is         *)
(* submitted once, in any order (writers get their transaction ids in order *)
(* but reach the log in any order), while truncations, a reset, failures of *)
(* the log store and Close come at any time.                                *)
(***************************************************************************)
EXTENDS WAL

CONSTANTS
    MaxTx,             \* bound: number of transactions submitted
    MaxTruncates,      \* bound: number of Truncate calls
    MaxResets,         \* bound: number of Reset calls
    MaxFailures        \* bound: number of failures of the log store

ASSUME BoundsAssumption ==
    /\ MaxTx \in Nat
    /\ MaxTruncates \in Nat
    /\ MaxResets \in Nat
    /\ MaxFailures \in Nat

VARIABLES
    base,              \* the transaction the callers started from
    submitted,         \* transactions passed to Log or LogRecord since then
    limit,             \* the highest transaction a Truncate call has named
    failed,            \* transactions whose batch StoreLogs did not store
    truncates,         \* number of Truncate calls made
    resets,            \* number of Reset calls made
    failures           \* number of failures of the log store

history == <<base, submitted, limit, failed>>
counts  == <<truncates, resets, failures>>
vars    == <<walVars, history, counts>>

Txns == 1..MaxTx

Init ==
    /\ log = Empty
    /\ queue = {}
    /\ nextTx = 1
    /\ truncateTx = 0
    /\ rpc = "new"
    /\ batch = Empty
    /\ taken = 0
    /\ closing = FALSE
    /\ idle = FALSE
    /\ base = 1
    /\ submitted = {}
    /\ limit = 0
    /\ failed = {}
    /\ truncates = 0
    /\ resets = 0
    /\ failures = 0
-----------------------------------------------------------------------------
Submit(t) ==
    /\ t >= base
    /\ t \notin submitted
    /\ Log(t, t) \/ LogRecord(t, t)
    /\ submitted' = submitted \union {t}
    /\ UNCHANGED <<base, limit, failed, counts>>

ClientTruncate(t) ==
    /\ truncates < MaxTruncates
    /\ Truncate(t)
    /\ truncates' = truncates + 1
    /\ limit' = IF t > limit THEN t ELSE limit
    /\ UNCHANGED <<base, submitted, failed, resets, failures>>

\* DB.resetToTxn(t - 1, wal): the next transaction submitted is t; an error of Reset
\* is only logged
ClientReset(t) ==
    /\ resets < MaxResets
    /\ \/ Reset(t) /\ UNCHANGED failures
       \/ ResetFails(t) /\ failures < MaxFailures /\ failures' = failures + 1
    /\ resets' = resets + 1
    /\ base' = t
    /\ submitted' = {}
    /\ failed' = {}
    /\ UNCHANGED <<limit, truncates>>

\* what the callers see of the run loop: which batches were not stored
NotStored == IF rpc = "store" /\ ~Appendable(log, batch) THEN DOMAIN batch ELSE {}

Run ==
    /\ RunAsync \/ RunStep
    /\ failed' = failed \union NotStored
    /\ UNCHANGED <<base, submitted, limit, counts>>

Fail ==
    /\ failures < MaxFailures
    /\ StoreFails \/ TruncateFails
    /\ failures' = failures + 1
    /\ failed' = IF rpc = "store" THEN failed \union DOMAIN batch ELSE failed
    /\ UNCHANGED <<base, submitted, limit, truncates, resets>>

Clock    == Elapse /\ UNCHANGED <<history, counts>>
Shutdown == Close /\ UNCHANGED <<history, counts>>

Next ==
    \/ \E t \in Txns : Submit(t) \/ ClientTruncate(t) \/ ClientReset(t)
    \/ Run
    \/ Fail
    \/ Clock
    \/ Shutdown

Spec == Init /\ [][Next]_vars

(***************************************************************************)
(* The run loop is a goroutine with a ticker, and its select takes either   *)
(* ready branch at random, so each of its steps is taken if it stays        *)
(* possible.  Time passes.                                                  *)
(***************************************************************************)
Fairness ==
    /\ WF_vars(Run)
    /\ WF_vars(Done /\ UNCHANGED <<history, counts>>)
    /\ WF_vars(Tick /\ UNCHANGED <<history, counts>>)
    /\ WF_vars(Clock)

FairSpec == Spec /\ Fairness
-----------------------------------------------------------------------------
(***************************************************************************)
(* Properties.                                                              *)
(***************************************************************************)

\* No request vanishes: a submitted transaction is in the log, in the queue or
\* in the batch being stored, or StoreLogs failed on it (which is logged and
\* counted), or a Truncate call has declared it unnecessary.  In particular
\* what LogRecord, a tick and a full truncation drop is only that.
NoRequestVanishes ==
    \A t \in submitted :
        t \in DOMAIN log \union Pending \union InFlight \union failed \/ t <= limit

\* As long as the log store works and the log is not reset, the log store is
\* never handed a batch that does not continue it, across truncations of
\* records that have not been logged yet.
StoreNeverRefused ==
    failures = 0 /\ resets = 0 => (rpc = "store" => Appendable(log, batch))

\* The log does not deadlock: once every transaction up to t has been
\* submitted, the run loop gets past t (it is logged or dropped), unless the
\* log is closed or reset first.
Progress ==
    \A t \in Txns :
        (base = 1 /\ 1..t \subseteq submitted) ~> (nextTx > t \/ closing \/ resets > 0)

\* Close returns, even if the queue can never drain because a transaction in
\* front of it is missing.
CloseReturns == closing ~> rpc = "exited"

\* run: "Need to drain the queue before we can shutdown", and only "force the WAL
\* to close after some a timeout": a run loop that is idle when Close comes does not
\* exit at once if a request is ready to be logged.
CloseDrains ==
    [][~closing /\ closing' /\ rpc = "select" /\ nextTx \in Pending => ~idle]_vars
=============================================================================
