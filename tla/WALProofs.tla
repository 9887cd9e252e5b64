------------------------------ MODULE WALProofs ------------------------------
(***************************************************************************)
(* The write-ahead log loses no request and continues its log store, for    *)
(* any number of transactions, truncations, resets and failures.            *)
(***************************************************************************)
EXTENDS WALClients, WellFoundedInduction, TLAPS

\* n is the index after the last one of l
Ends(l, n) ==
    /\ \A i \in DOMAIN l : i < n
    /\ DOMAIN l # {} => n - 1 \in DOMAIN l

\* The types of the variables.
TypeInv ==
    /\ DOMAIN log \subseteq Nat
    /\ queue \subseteq [tx : Nat, data : Nat]
    /\ nextTx \in Nat
    /\ truncateTx \in Nat
    /\ rpc \in RunPCs
    /\ DOMAIN batch \subseteq Nat
    /\ taken \in Nat
    /\ base \in Nat
    /\ submitted \subseteq Nat
    /\ limit \in Nat
    /\ failures \in Nat
    /\ resets \in Nat

(***************************************************************************)
(* RequestInv: what is queued has been submitted, and every transaction     *)
(* since the callers started that is below nextTx has been submitted or     *)
(* truncated; so a request that comes too late, whether LogRecord drops it  *)
(* or a tick, is one that a truncation has named.                           *)
(***************************************************************************)
RequestInv ==
    /\ Pending \subseteq submitted
    /\ \A t \in base..(nextTx - 1) : t \in submitted \/ t <= limit
    /\ \A t \in Pending : t < nextTx => t <= limit
    /\ truncateTx <= limit
    /\ taken <= limit

(***************************************************************************)
(* StoreInv: while nothing fails and nothing is reset the log store ends    *)
(* where nextTx says, or where the batch begins that is to be stored.       *)
(***************************************************************************)
StoreInv ==
    failures = 0 /\ resets = 0 =>
        /\ rpc = "store" =>
               \E m \in 0..nextTx : DOMAIN batch = m..(nextTx - 1) /\ Ends(log, m)
        /\ rpc # "store" => Ends(log, nextTx)
        /\ rpc = "adjust" => \A i \in DOMAIN log : i >= taken

\* The inductive invariant.
IInv == TypeInv /\ RequestInv /\ StoreInv /\ NoRequestVanishes
-----------------------------------------------------------------------------
\* The greatest of a set of numbers that has one (FiniteSetsExt).
LEMMA MaxIs ==
  ASSUME NEW S \in SUBSET Nat, NEW m \in S, \A y \in S : y <= m
  PROVE  Max(S) = m
<1>1. \A x \in S : (\A y \in S : x >= y) <=> x = m
  OBVIOUS
<1> QED
  BY <1>1, Zenon DEF Max

\* The least of a set of numbers that has one.
LEMMA MinIs ==
  ASSUME NEW S \in SUBSET Nat, NEW m \in S, \A y \in S : m <= y
  PROVE  Min(S) = m
<1>1. \A x \in S : (\A y \in S : x <= y) <=> x = m
  OBVIOUS
<1> QED
  BY <1>1, Zenon DEF Min

\* A set of numbers with a bound has a greatest one.
LEMMA MaxExists ==
  ASSUME NEW S \in SUBSET Nat, S # {}, NEW b \in Nat, \A y \in S : y <= b
  PROVE  Max(S) \in S /\ \A y \in S : y <= Max(S)
<1> DEFINE less == {ss \in Nat \X Nat : ss[1] < ss[2]}
           D == {n \in Nat : b - n \in S}
<1>1. IsWellFoundedOn(less, Nat)
  BY NatLessThanWellFounded DEF OpToRel
<1>2. D \subseteq Nat /\ D # {}
  <2>1. PICK y \in S : TRUE
    BY Zenon
  <2>2. b - y \in Nat /\ b - (b - y) = y
    BY <2>1
  <2> QED
    BY <2>1, <2>2, Zenon
<1>3. \A x, y \in Nat : <<y, x>> \in less <=> y < x
  OBVIOUS
<1> HIDE DEF less
<1>4. PICK x \in D : \A y \in D : ~ (<<y, x>> \in less)
  BY <1>1, <1>2, WFMin, Zenon
<1>5. \A y \in S : y <= b - x
  <2> SUFFICES ASSUME NEW y \in S PROVE y <= b - x
    OBVIOUS
  <2>1. b - y \in Nat /\ b - (b - y) = y
    OBVIOUS
  <2>2. b - y \in D
    BY <2>1
  <2>3. ~ (b - y < x) /\ x \in Nat
    BY <1>2, <1>3, <1>4, <2>1, <2>2, Zenon
  <2> QED
    BY <2>1, <2>3
<1>6. b - x \in S
  OBVIOUS
<1> HIDE DEF D
<1> QED
  BY <1>5, <1>6, MaxIs, Zenon

\* The tick takes the requests from nextTx up to BatchEnd, and all of them are there.
LEMMA BatchEndIs ==
  ASSUME nextTx \in Nat
  PROVE  /\ BatchEnd \in Nat
         /\ nextTx <= BatchEnd
         /\ nextTx..(BatchEnd - 1) \subseteq Pending
<1> DEFINE S == {m \in nextTx..(nextTx + BatchLimit) : nextTx..(m - 1) \subseteq Pending}
<1> USE BatchLimitAssumption DEF BatchLimitAssumption
<1>1. nextTx \in Nat /\ BatchLimit \in Nat
  OBVIOUS
<1>2. nextTx \in S
  BY <1>1
<1>3. S \in SUBSET Nat /\ \A y \in S : y <= nextTx + BatchLimit
  BY <1>1
<1>4. nextTx + BatchLimit \in Nat
  BY <1>1
<1>5. Max(S) \in S
  <2> HIDE DEF S
  <2> QED
    BY <1>2, <1>3, <1>4, MaxExists
<1>6. BatchEnd \in S
  BY <1>5, Zenon DEF BatchEnd
<1> QED
  BY <1>1, <1>6

\* A log that ends at m takes a batch that begins there.
LEMMA Continues ==
  ASSUME NEW l, DOMAIN l \subseteq Nat, NEW b, NEW m \in Nat, NEW n \in Nat,
         m <= n, DOMAIN b = m..(n - 1), Ends(l, m)
  PROVE  Appendable(l, b) /\ Ends(StoreLogs(l, b), n)
<1>1. CASE DOMAIN b = {}
  <2>1. m = n
    BY <1>1
  <2>2. DOMAIN StoreLogs(l, b) = DOMAIN l
    BY <1>1, Zenon DEF StoreLogs
  <2> QED
    BY <1>1, <2>1, <2>2 DEF Appendable, Ends
<1>2. CASE DOMAIN b # {}
  <2>1. m < n /\ n - 1 \in DOMAIN b
    BY <1>2
  <2>2. Min(DOMAIN b) = m
    <3>1. m \in DOMAIN b
      BY <2>1
    <3>2. DOMAIN b \in SUBSET Nat /\ \A y \in DOMAIN b : m <= y
      OBVIOUS
    <3> QED
      BY <3>1, <3>2, MinIs
  <2>3. DOMAIN l # {} => LastIndex(l) + 1 = m
    <3> SUFFICES ASSUME DOMAIN l # {} PROVE LastIndex(l) + 1 = m
      OBVIOUS
    <3>1. m - 1 \in DOMAIN l /\ \A i \in DOMAIN l : i <= m - 1
      BY DEF Ends
    <3>2. Max(DOMAIN l) = m - 1
      BY <3>1, MaxIs
    <3> QED
      BY <3>2 DEF LastIndex
  <2>4. DOMAIN StoreLogs(l, b) = DOMAIN l \union DOMAIN b
    BY DEF StoreLogs
  <2>5. Appendable(l, b)
    BY <2>2, <2>3, Zenon DEF Appendable
  <2>6. Ends(StoreLogs(l, b), n)
    <3> SUFFICES ASSUME NEW i \in DOMAIN StoreLogs(l, b)
                 PROVE  i < n
      BY <2>1, <2>4 DEF Ends
    <3> QED
      BY <2>1, <2>4 DEF Ends
  <2> QED
    BY <2>5, <2>6
<1> QED
  BY <1>1, <1>2
-----------------------------------------------------------------------------
\* It holds when the log has just been opened for the first time.
LEMMA InitIInv == Init => IInv
<1> SUFFICES ASSUME Init PROVE IInv
  OBVIOUS
<1>1. DOMAIN log = {} /\ DOMAIN batch = {} /\ Pending = {}
  BY DEF Init, Empty, Pending
<1> QED
  BY <1>1 DEF Init, IInv, TypeInv, RequestInv, StoreInv, NoRequestVanishes, Ends, RunPCs

\* A caller's request: it is queued, unless LogRecord finds it below nextTx.
LEMMA SubmitStep ==
  ASSUME IInv, NEW t \in Txns, Submit(t)
  PROVE  IInv'
<1> USE BoundsAssumption DEF BoundsAssumption, IInv, TypeInv, runLoop, counts, walVars, protected
<1>1. t \in Nat /\ base <= t /\ t \notin submitted /\ submitted' = submitted \union {t}
  BY DEF Submit, Txns
<1>2. /\ UNCHANGED <<log, nextTx, truncateTx, rpc, batch, taken>>
      /\ UNCHANGED <<base, limit, failed, failures, resets>>
  BY DEF Submit, Log, LogRecord
<1>3. \/ queue' = queue \union {[tx |-> t, data |-> t]}
      \/ t < nextTx /\ queue' = queue
  BY DEF Submit, Log, LogRecord
<1>4. t < nextTx => t <= limit
  BY <1>1 DEF RequestInv
<1>5. /\ Pending \subseteq Pending'
      /\ Pending' \subseteq Pending \union {t}
      /\ t \in Pending' \/ t < nextTx
  <2>1. CASE queue' = queue
    BY <1>3, <2>1, Zenon DEF Pending
  <2>2. CASE queue' = queue \union {[tx |-> t, data |-> t]}
    <3>1. [tx |-> t, data |-> t].tx = t
      OBVIOUS
    <3>2. Pending' = Pending \union {[tx |-> t, data |-> t].tx}
      BY <2>2, Zenon DEF Pending
    <3> QED
      BY <3>1, <3>2
  <2> QED
    BY <1>3, <2>1, <2>2
<1>6. TypeInv'
  BY <1>1, <1>2, <1>3
<1>7. RequestInv'
  BY <1>1, <1>2, <1>4, <1>5 DEF RequestInv
<1>8. StoreInv'
  BY <1>2 DEF StoreInv, Ends
<1>9. NoRequestVanishes'
  BY <1>1, <1>2, <1>4, <1>5 DEF NoRequestVanishes, InFlight
<1> QED
  BY <1>6, <1>7, <1>8, <1>9

\* A truncation is only noted, a reset begins the requests anew.
LEMMA CallerStep ==
  ASSUME IInv, NEW t \in Txns, ClientTruncate(t) \/ ClientReset(t)
  PROVE  IInv'
<1> USE BoundsAssumption DEF BoundsAssumption, IInv, TypeInv, runLoop, counts, walVars, protected
<1>1. t \in Nat
  BY DEF Txns
<1>2. CASE ClientTruncate(t)
  <2>1. /\ UNCHANGED <<log, queue, nextTx, rpc, batch, taken, base, submitted, failed>>
        /\ UNCHANGED <<failures, resets>>
        /\ truncateTx' \in Nat /\ truncateTx' <= limit'
        /\ limit' \in Nat /\ limit <= limit'
    BY <1>1, <1>2 DEF ClientTruncate, Truncate, RequestInv
  <2>2. Pending' = Pending
    BY <2>1 DEF Pending
  <2>3. RequestInv'
    BY <2>1, <2>2 DEF RequestInv
  <2>4. StoreInv'
    BY <2>1 DEF StoreInv, Ends
  <2>5. NoRequestVanishes'
    BY <2>1, <2>2 DEF NoRequestVanishes, InFlight
  <2> QED
    BY <2>1, <2>3, <2>4, <2>5
<1>3. CASE ClientReset(t)
  <2>1. /\ UNCHANGED <<truncateTx, rpc, batch, taken, limit>>
        /\ queue' = {} /\ log' \in {log, Empty} /\ nextTx' = t /\ base' = t
        /\ submitted' = {} /\ resets' = resets + 1 /\ failures' \in Nat
    BY <1>3 DEF ClientReset, Reset, ResetFails
  <2>2. DOMAIN log' \subseteq Nat /\ Pending' = {}
    BY <2>1 DEF Pending, Empty
  <2>3. RequestInv'
    BY <1>1, <2>1, <2>2 DEF RequestInv
  <2>4. StoreInv'
    BY <2>1 DEF StoreInv
  <2>5. NoRequestVanishes'
    BY <2>1 DEF NoRequestVanishes
  <2> QED
    BY <1>1, <2>1, <2>2, <2>3, <2>4, <2>5
<1> QED
  BY <1>2, <1>3

\* The tick moves requests from the queue to the batch.
LEMMA TickStep ==
  ASSUME IInv, Tick, UNCHANGED <<base, submitted, limit, failed, failures, resets>>
  PROVE  IInv'
<1> USE DEF IInv
<1> DEFINE m == BatchEnd
<1>1. m \in Nat /\ nextTx <= m /\ nextTx..(m - 1) \subseteq Pending
  <2>1. nextTx \in Nat
    BY DEF TypeInv
  <2> QED
    BY <2>1, BatchEndIs
<1>2. /\ rpc = "select" /\ UNCHANGED log
      /\ queue' = {e \in queue : e.tx >= m}
      /\ nextTx' = m
      /\ DOMAIN batch' = nextTx..(m - 1)
      /\ taken' = truncateTx /\ truncateTx' = 0
      /\ rpc' = IF m = nextTx /\ truncateTx = 0 THEN "select" ELSE "store"
  BY DEF Tick, Collected
<1> HIDE DEF m
<1>3. Pending' = {t \in Pending : t >= m}
  BY <1>2, Zenon DEF Pending
<1>4. TypeInv'
  BY <1>1, <1>2 DEF TypeInv, RunPCs
<1>5. RequestInv'
  <2>1. /\ Pending' \subseteq submitted'
        /\ truncateTx' <= limit'
        /\ taken' <= limit'
    <3>1. Pending' \subseteq submitted'
      BY <1>3 DEF RequestInv
    <3>2. truncateTx' <= limit' /\ taken' <= limit'
      BY <1>2 DEF RequestInv, TypeInv
    <3> QED
      BY <3>1, <3>2
  <2>2. \A t \in Pending' : ~ (t < nextTx')
    BY <1>1, <1>2, <1>3 DEF RequestInv, TypeInv
  <2>3. ASSUME NEW t \in base'..(nextTx' - 1)
        PROVE  t \in submitted' \/ t <= limit'
    <3>1. t \in base..(nextTx - 1) \/ t \in nextTx..(m - 1)
      BY <1>1, <1>2 DEF TypeInv
    <3> QED
      BY <1>1, <3>1 DEF RequestInv
  <2> QED
    BY <2>1, <2>2, <2>3 DEF RequestInv
<1>6. StoreInv'
  <2> SUFFICES ASSUME failures = 0 /\ resets = 0
               PROVE  StoreInv'
    BY DEF StoreInv
  <2>1. Ends(log, nextTx) /\ log' = log /\ nextTx \in Nat
    BY <1>2 DEF StoreInv, TypeInv
  <2>2. Ends(log', nextTx)
    BY <2>1
  <2>3. nextTx \in 0..nextTx' /\ DOMAIN batch' = nextTx..(nextTx' - 1)
    BY <1>1, <1>2, <2>1
  <2>4. rpc' # "adjust" /\ (rpc' # "store" => nextTx' = nextTx)
    BY <1>2
  <2> QED
    BY <2>2, <2>3, <2>4 DEF StoreInv
<1>7. NoRequestVanishes'
  <2> SUFFICES ASSUME NEW t \in submitted
               PROVE  t \in DOMAIN log' \union Pending' \union InFlight' \union failed' \/ t <= limit'
    BY DEF NoRequestVanishes
  <2>1. InFlight = {} /\ t \in Nat
    BY <1>2 DEF InFlight, TypeInv
  <2>2. t \in DOMAIN log \union Pending \union failed \/ t <= limit
    BY <2>1 DEF NoRequestVanishes
  <2>3. CASE t \in Pending /\ t < nextTx
    BY <2>3 DEF RequestInv
  <2>4. CASE t \in Pending /\ nextTx <= t /\ t < m
    <3>1. rpc' = "store" /\ t \in DOMAIN batch'
      BY <1>1, <1>2, <2>1, <2>4 DEF TypeInv
    <3> QED
      BY <3>1 DEF InFlight
  <2>5. CASE t \in Pending /\ t >= m
    BY <1>3, <2>5
  <2> QED
    BY <1>1, <1>2, <2>1, <2>2, <2>3, <2>4, <2>5 DEF TypeInv
<1> QED
  BY <1>4, <1>5, <1>6, <1>7

\* Storing the batch: it joins the log, or it is one of those that failed.
LEMMA StoreStep ==
  ASSUME IInv, UNCHANGED <<base, submitted, limit, resets>>, failures' \in Nat,
         rpc = "store", rpc' = "truncate", UNCHANGED <<protected, batch, taken>>,
         \/ /\ Appendable(log, batch) /\ log' = StoreLogs(log, batch)
            /\ failed' = failed /\ failures' = failures
         \/ /\ log' = log /\ failed' = failed \union DOMAIN batch
            /\ failures' = 0 => failures = 0 /\ ~Appendable(log, batch)
  PROVE  IInv'
<1> USE DEF IInv, protected
<1>1. Pending' = Pending
  BY DEF Pending
<1>2. DOMAIN log' = DOMAIN log \union DOMAIN batch \/ DOMAIN log' = DOMAIN log
  BY DEF StoreLogs
<1>3. TypeInv'
  BY <1>2 DEF TypeInv, RunPCs
<1>4. RequestInv'
  BY <1>1 DEF RequestInv
<1>5. StoreInv'
  <2> SUFFICES ASSUME failures' = 0, resets = 0
               PROVE  Ends(log', nextTx')
    BY DEF StoreInv
  <2>1. failures = 0
    OBVIOUS
  <2>2. PICK m \in 0..nextTx : DOMAIN batch = m..(nextTx - 1) /\ Ends(log, m)
    BY <2>1 DEF StoreInv
  <2>3. Appendable(log, batch) /\ Ends(StoreLogs(log, batch), nextTx)
    <3>1. m \in Nat /\ nextTx \in Nat /\ m <= nextTx /\ DOMAIN log \subseteq Nat
      BY DEF TypeInv
    <3> QED
      BY <2>2, <3>1, Continues
  <2>4. log' = StoreLogs(log, batch) /\ nextTx' = nextTx
    BY <2>3
  <2> QED
    BY <2>3, <2>4
<1>6. NoRequestVanishes'
  <2>1. InFlight = DOMAIN batch /\ InFlight' = {}
    BY DEF InFlight
  <2>2. DOMAIN log \union InFlight \union failed \subseteq DOMAIN log' \union failed'
    BY <2>1 DEF StoreLogs
  <2> QED
    BY <1>1, <2>2 DEF NoRequestVanishes
<1> QED
  BY <1>3, <1>4, <1>5, <1>6

\* Truncating the log store: what goes is below the transaction that was named.
LEMMA TruncateStep ==
  ASSUME IInv, UNCHANGED <<base, submitted, limit, failed, resets>>, failures' \in Nat,
         failures' = 0 => failures = 0,
         rpc = "truncate", UNCHANGED protected,
         \/ log' = log /\ EndTick
         \/ log' = TruncateFront(log, taken) /\ rpc' = "adjust" /\ UNCHANGED <<batch, taken>>
  PROVE  IInv'
<1> USE DEF IInv, protected
<1>1. Pending' = Pending
  BY DEF Pending
<1>2. \/ log' = log
      \/ DOMAIN log' = {i \in DOMAIN log : i >= taken}
  BY DEF TruncateFront
<1>3. rpc' \in {"select", "adjust"} /\ taken' \in {0, taken}
  BY DEF EndTick
<1>4. TypeInv'
  <2>1. DOMAIN batch' \subseteq Nat
    BY DEF TypeInv, EndTick, Empty
  <2> QED
    BY <1>2, <1>3, <2>1 DEF TypeInv, RunPCs
<1>5. RequestInv'
  BY <1>1, <1>3 DEF RequestInv, TypeInv
<1>6. StoreInv'
  <2> SUFFICES ASSUME failures' = 0, resets = 0
               PROVE  /\ Ends(log', nextTx')
                      /\ rpc' = "adjust" => \A i \in DOMAIN log' : i >= taken'
    BY <1>3 DEF StoreInv
  <2>1. Ends(log, nextTx) /\ nextTx' = nextTx
    BY DEF StoreInv
  <2>2. Ends(log', nextTx')
    BY <1>2, <2>1 DEF Ends, TypeInv
  <2>3. rpc' = "adjust" => DOMAIN log' = {i \in DOMAIN log : i >= taken} /\ taken' = taken
    BY DEF EndTick, TruncateFront
  <2> QED
    BY <2>2, <2>3
<1>7. NoRequestVanishes'
  <2>1. InFlight = {} /\ InFlight' = {}
    BY <1>3 DEF InFlight
  <2>2. \A i \in DOMAIN log : i \in DOMAIN log' \/ i <= limit
    BY <1>2 DEF RequestInv, TypeInv
  <2> QED
    BY <1>1, <2>1, <2>2 DEF NoRequestVanishes
<1> QED
  BY <1>4, <1>5, <1>6, <1>7

\* After a truncation past the last record nextTx moves on, and the log is empty then.
LEMMA AdjustStep ==
  ASSUME IInv, Adjust, UNCHANGED <<base, submitted, limit, failed, failures, resets>>
  PROVE  IInv'
<1> USE DEF IInv
<1>1. rpc' = "select" /\ taken' = 0 /\ DOMAIN batch' = {} /\ UNCHANGED <<log, truncateTx>>
  BY DEF Adjust, EndTick, Empty
<1>2. InFlight = {} /\ InFlight' = {}
  BY <1>1 DEF InFlight, Adjust
<1>3. CASE taken > nextTx
  <2>1. nextTx' = taken + 1 /\ queue' = {e \in queue : e.tx > taken}
    BY <1>3 DEF Adjust
  <2>2. Pending' = {t \in Pending : t > taken}
    BY <2>1, Zenon DEF Pending
  <2>3. TypeInv'
    BY <1>1, <2>1 DEF TypeInv, RunPCs
  <2>4. RequestInv'
    <3>1. Pending' \subseteq submitted'
      BY <2>2 DEF RequestInv
    <3>4. ASSUME NEW t \in Pending' PROVE ~ (t < nextTx')
      <4>1. t > taken /\ t \in Nat /\ taken \in Nat
        BY <2>2, <3>1 DEF TypeInv
      <4> QED
        BY <2>1, <4>1
    <3>2. \A t \in base'..(nextTx' - 1) : t \in submitted' \/ t <= limit'
      BY <2>1 DEF RequestInv, TypeInv
    <3>3. truncateTx' <= limit' /\ taken' <= limit'
      BY <1>1 DEF RequestInv, TypeInv
    <3> QED
      BY <3>1, <3>2, <3>3, <3>4 DEF RequestInv
  <2>5. StoreInv'
    <3> SUFFICES ASSUME failures = 0, resets = 0
                 PROVE  Ends(log', nextTx')
      BY <1>1 DEF StoreInv
    <3>1. Ends(log, nextTx) /\ \A i \in DOMAIN log : i >= taken
      BY DEF StoreInv, Adjust
    <3>2. DOMAIN log = {}
      <4> SUFFICES ASSUME NEW i \in DOMAIN log PROVE FALSE
        BY Zenon
      <4>1. i < nextTx /\ i >= taken /\ i \in Nat /\ nextTx \in Nat /\ taken \in Nat
        BY <3>1 DEF Ends, TypeInv
      <4> QED
        BY <1>3, <4>1
    <3> QED
      BY <1>1, <3>2 DEF Ends
  <2>6. NoRequestVanishes'
    BY <1>1, <1>2, <2>2 DEF NoRequestVanishes, RequestInv, TypeInv
  <2> QED
    BY <2>3, <2>4, <2>5, <2>6
<1>4. CASE ~ (taken > nextTx)
  <2>1. UNCHANGED <<queue, nextTx>>
    BY <1>4 DEF Adjust
  <2>2. Pending' = Pending
    BY <2>1 DEF Pending
  <2>3. TypeInv'
    BY <1>1, <2>1 DEF TypeInv, RunPCs
  <2>4. RequestInv'
    BY <1>1, <2>1, <2>2 DEF RequestInv, TypeInv
  <2>5. StoreInv'
    BY <1>1, <2>1 DEF StoreInv, Ends, Adjust
  <2>6. NoRequestVanishes'
    BY <1>1, <1>2, <2>2 DEF NoRequestVanishes
  <2> QED
    BY <2>3, <2>4, <2>5, <2>6
<1> QED
  BY <1>3, <1>4

\* Every step preserves the invariant.
LEMMA NextIInv == IInv /\ [Next]_vars => IInv'
<1> SUFFICES ASSUME IInv, [Next]_vars PROVE IInv'
  OBVIOUS
<1> DEFINE Quiet == /\ UNCHANGED <<log, protected, batch, taken>>
                    /\ UNCHANGED <<base, submitted, limit, failed, failures, resets>>
                    /\ rpc' = rpc \/ {rpc, rpc'} \subseteq {"new", "select", "exited"}
<1>1. ASSUME Quiet PROVE IInv'
  <2>1. Pending' = Pending /\ InFlight' = InFlight
    BY <1>1 DEF Pending, InFlight, protected
  <2>2. TypeInv'
    BY <1>1 DEF IInv, TypeInv, protected, RunPCs
  <2>3. RequestInv'
    BY <1>1, <2>1 DEF IInv, RequestInv, protected
  <2>4. StoreInv'
    BY <1>1 DEF IInv, StoreInv, Ends, protected
  <2>5. NoRequestVanishes'
    BY <1>1, <2>1 DEF IInv, NoRequestVanishes
  <2> QED
    BY <2>2, <2>3, <2>4, <2>5 DEF IInv
<1>2. ASSUME NEW t \in Txns, Submit(t) \/ ClientTruncate(t) \/ ClientReset(t) PROVE IInv'
  BY <1>2, SubmitStep, CallerStep
<1>3. CASE Run
  <2> USE <1>3 DEF Run, counts
  <2>1. CASE RunAsync
    <3>1. Quiet
      BY <2>1 DEF RunAsync, NotStored
    <3> QED
      BY <1>1, <3>1
  <2>2. CASE Tick
    <3>1. NotStored = {}
      BY <2>2 DEF Tick, NotStored
    <3> QED
      BY <2>2, <3>1, TickStep
  <2>3. CASE Store
    <3>1. NotStored = IF Appendable(log, batch) THEN {} ELSE DOMAIN batch
      BY <2>3 DEF Store, NotStored
    <3>2. failures \in Nat
      BY DEF IInv, TypeInv
    <3> QED
      BY <2>3, <3>1, <3>2, StoreStep DEF Store
  <2>4. CASE TruncateLog
    <3>1. NotStored = {}
      BY <2>4 DEF TruncateLog, NotStored
    <3>2. failures \in Nat
      BY DEF IInv, TypeInv
    <3> QED
      BY <2>4, <3>1, <3>2, TruncateStep DEF TruncateLog
  <2>5. CASE Adjust
    <3>1. NotStored = {}
      BY <2>5 DEF Adjust, NotStored
    <3> QED
      BY <2>5, <3>1, AdjustStep
  <2>6. CASE Done
    <3>1. Quiet
      BY <2>6 DEF Done, NotStored
    <3> QED
      BY <1>1, <3>1
  <2> QED
    BY <2>1, <2>2, <2>3, <2>4, <2>5, <2>6 DEF RunStep
<1>4. CASE Fail
  <2>1. failures' = failures + 1 /\ failures \in Nat /\ failures' \in Nat /\ failures' # 0
    BY <1>4 DEF Fail, IInv, TypeInv
  <2>2. CASE StoreFails
    BY <1>4, <2>1, <2>2, StoreStep DEF Fail, StoreFails
  <2>3. CASE TruncateFails
    BY <1>4, <2>1, <2>3, TruncateStep DEF Fail, TruncateFails
  <2> QED
    BY <1>4, <2>2, <2>3 DEF Fail
<1>5. CASE Clock
  BY <1>1, <1>5 DEF Clock, Elapse, history, counts
<1>6. CASE Shutdown
  BY <1>1, <1>6 DEF Shutdown, Close, history, counts
<1>7. CASE UNCHANGED vars
  BY <1>1, <1>7 DEF vars, walVars, runLoop, history, counts
<1> QED
  BY <1>2, <1>3, <1>4, <1>5, <1>6, <1>7 DEF Next
-----------------------------------------------------------------------------
\* Whatever callers, the run loop and failures do in any order, the invariant holds.
THEOREM LogInvariant == Spec => []IInv
<1>1. Init => IInv
  BY InitIInv
<1>2. IInv /\ [Next]_vars => IInv'
  BY NextIInv
<1> QED
  BY <1>1, <1>2, PTL DEF Spec

\* No request to the log (Log, LogRecord) vanishes: it is queued, being stored, stored,
\* known to have failed, or a truncation has named it.
THEOREM RequestsKept == Spec => []NoRequestVanishes
<1>1. IInv => NoRequestVanishes
  BY DEF IInv
<1> QED
  BY <1>1, LogInvariant, PTL

\* The run loop never hands the log store a batch that StoreLogs refuses, as long as the
\* store works and the log is not reset.
THEOREM StoreContinued == Spec => []StoreNeverRefused
<1>1. IInv => StoreNeverRefused
  <2> SUFFICES ASSUME IInv, failures = 0, resets = 0, rpc = "store"
               PROVE  Appendable(log, batch)
    BY DEF StoreNeverRefused
  <2>1. PICK m \in 0..nextTx : DOMAIN batch = m..(nextTx - 1) /\ Ends(log, m)
    BY DEF IInv, StoreInv
  <2>2. m \in Nat /\ nextTx \in Nat /\ m <= nextTx /\ DOMAIN log \subseteq Nat
    BY DEF IInv, TypeInv
  <2> QED
    BY <2>1, <2>2, Continues, Zenon
<1> QED
  BY <1>1, LogInvariant, PTL
=============================================================================
