------------------------------- MODULE TxPool -------------------------------
(***************************************************************************)
(* Transactions and the transaction pool: DB.begin and its commit function  *)
(* (db.go) over the sorted lock-free list and its cleaner (tx_list.go).     *)
(*                                                                         *)
(* Every writer calls begin, does its work, and calls commit.  Commit       *)
(* raises the watermark itself if its transaction is the next one, then     *)
(* inserts the transaction into the list.  Every insertion wakes the        *)
(* cleaner, which raises the watermark over the consecutive transactions    *)
(* it meets and marks them deleted.  Marked nodes are unlinked by later     *)
(* insertions that walk over them.                                          *)
(*                                                                         *)
(* A node is its transaction id.  The head is 0 and the tail MaxTx + 1, so  *)
(* that list order is the order of numbers (the code gives both tx 0 and    *)
(* tells them apart by position).  One action is one atomic operation on    *)
(* shared memory; two atomic operations are one action only where the       *)
(* comment on the action says why nothing can come between them.            *)
(***************************************************************************)
EXTENDS Naturals

CONSTANT MaxTx         \* bound: number of transactions begun

ASSUME MaxTxAssumption == MaxTx \in Nat

Head  == 0
Tail  == MaxTx + 1
Txns  == 1..MaxTx
Nodes == 0..(MaxTx + 1)
Nil   == MaxTx + 2     \* the nil pointer: in next, the deletion mark

VARIABLES
    tx,                \* DB.tx, the last transaction id handed out
    highWatermark,     \* DB.highWatermark
    next,              \* TxNode.next; Nil marks the node as deleted
    original,          \* TxNode.original; the next pointer of a marked node
    drain,             \* is there a token in the channel TxPool.drain
    pc,                \* where the goroutine of each transaction is
    prev,              \* Insert: the local variable prev
    node,              \* Insert: the local variable node
    cpc,               \* where the cleaner is
    cnode,             \* delete: the local variable node
    cnext,             \* delete: the local variable next
    stopped,           \* has TxPool.Stop cancelled the cleaner's context
    linked             \* history: nodes not yet unlinked from the list

list    == <<next, original, linked>>
writer  == <<pc, prev, node>>
cleaner == <<cpc, cnode, cnext, stopped>>
vars    == <<tx, highWatermark, list, drain, writer, cleaner>>

WriterPCs == {"idle", "running", "store", "start", "visit", "help",
              "advance", "link", "notify", "done"}

CleanerPCs == {"recv", "first", "eval", "store", "mark", "original", "advance",
               "exited"}

(***************************************************************************)
(* Transactions that have reached a stage of their life.                    *)
(***************************************************************************)
Begun     == {t \in Txns : pc[t] # "idle"}
Completed == {t \in Txns : pc[t] \notin {"idle", "running"}}
Published == {t \in Txns : pc[t] \in {"notify", "done"}}

Marked(n) == next[n] = Nil

(***************************************************************************)
(* isMarked and getUnmarked spin until original is set on a marked node:    *)
(* reading a node's successor waits while both pointers are nil.  A mark is *)
(* never taken back and original is written once, so the two loads act as   *)
(* one at the time of the second.                                           *)
(***************************************************************************)
Readable(n)  == next[n] # Nil \/ original[n] # Nil
Successor(n) == IF next[n] # Nil THEN next[n] ELSE original[n]

Init ==
    /\ tx = 0
    /\ highWatermark = 0
    /\ next = [n \in Nodes |-> IF n = Head THEN Tail ELSE Nil]
    /\ original = [n \in Nodes |-> Nil]
    /\ drain = FALSE
    /\ pc = [t \in Txns |-> "idle"]
    /\ prev = [t \in Txns |-> Head]
    /\ node = [t \in Txns |-> Head]
    /\ cpc = "recv"
    /\ cnode = Head
    /\ cnext = Nil
    /\ stopped = FALSE
    /\ linked = {Head, Tail}

Goto(t, label) == pc' = [pc EXCEPT ![t] = label]
-----------------------------------------------------------------------------
(***************************************************************************)
(* DB.begin and the commit function it returns.                             *)
(***************************************************************************)
Begin(t) ==
    /\ pc[t] = "idle"
    /\ t = tx + 1
    /\ tx' = t
    /\ Goto(t, "running")
    /\ UNCHANGED <<highWatermark, list, drain, prev, node, cleaner>>

\* mutant: commit raises the watermark past transactions still running
CommitLoadAnyLater(t) ==
    /\ pc[t] = "running"
    /\ Goto(t, IF highWatermark < t THEN "store" ELSE "start")
    /\ UNCHANGED <<tx, highWatermark, list, drain, prev, node, cleaner>>

\* commit loads the watermark and compares
CommitLoad(t) ==
    /\ pc[t] = "running"
    /\ Goto(t, IF highWatermark + 1 = t THEN "store" ELSE "start")
    /\ UNCHANGED <<tx, highWatermark, list, drain, prev, node, cleaner>>

CommitStore(t) ==
    /\ pc[t] = "store"
    /\ highWatermark' = t
    /\ Goto(t, "start")
    /\ UNCHANGED <<tx, list, drain, prev, node, cleaner>>
-----------------------------------------------------------------------------
(***************************************************************************)
(* TxPool.Insert: walk to the place of t, unlinking at most one marked node *)
(* per attempt, and start again whenever a compare-and-swap is lost.        *)
(***************************************************************************)
InsertStart(t) ==
    /\ pc[t] = "start"
    /\ prev' = [prev EXCEPT ![t] = Head]
    /\ node' = [node EXCEPT ![t] = next[Head]]
    /\ Goto(t, "visit")
    /\ UNCHANGED <<tx, highWatermark, list, drain, cleaner>>

InsertVisit(t) ==
    /\ pc[t] = "visit"
    /\ node[t] # Tail => Readable(node[t])
    /\ Goto(t, CASE node[t] # Tail /\ Marked(node[t])  -> "help"
                 [] node[t] # Tail /\ ~Marked(node[t]) /\ node[t] <= t -> "advance"
                 [] OTHER -> "link")
    /\ UNCHANGED <<tx, highWatermark, list, drain, prev, node, cleaner>>

\* prev.next.CompareAndSwap(node, next), then a new attempt whatever its result
InsertHelp(t) ==
    LET n == node[t] IN
    /\ pc[t] = "help"
    /\ IF next[prev[t]] = n
       THEN /\ next' = [next EXCEPT ![prev[t]] = original[n]]
            /\ linked' = linked \ {n}
       ELSE UNCHANGED <<next, linked>>
    /\ Goto(t, "start")
    /\ UNCHANGED <<tx, highWatermark, original, drain, prev, node, cleaner>>

InsertAdvance(t) ==
    /\ pc[t] = "advance"
    /\ Readable(node[t])
    /\ prev' = [prev EXCEPT ![t] = node[t]]
    /\ node' = [node EXCEPT ![t] = Successor(node[t])]
    /\ Goto(t, "visit")
    /\ UNCHANGED <<tx, highWatermark, list, drain, cleaner>>

\* mutant: a plain store where the code compares and swaps
InsertLinkNoCompare(t) ==
    /\ pc[t] = "link"
    /\ next' = [next EXCEPT ![t] = node[t], ![prev[t]] = t]
    /\ linked' = linked \union {t}
    /\ Goto(t, "notify")
    /\ UNCHANGED <<tx, highWatermark, original, drain, prev, node, cleaner>>

\* TxPool.insert; the store to the new node's next is not yet visible to anyone
InsertLink(t) ==
    /\ pc[t] = "link"
    /\ IF next[prev[t]] = node[t]
       THEN /\ next' = [next EXCEPT ![t] = node[t], ![prev[t]] = t]
            /\ linked' = linked \union {t}
            /\ Goto(t, "notify")
       ELSE /\ Goto(t, "start")
            /\ UNCHANGED <<next, linked>>
    /\ UNCHANGED <<tx, highWatermark, original, drain, prev, node, cleaner>>

\* mutant: the insertion does not wake the cleaner
InsertNoNotify(t) ==
    /\ pc[t] = "notify"
    /\ Goto(t, "done")
    /\ UNCHANGED <<tx, highWatermark, list, drain, prev, node, cleaner>>

\* a non-blocking send on a channel with room for one token
InsertNotify(t) ==
    /\ pc[t] = "notify"
    /\ drain' = TRUE
    /\ Goto(t, "done")
    /\ UNCHANGED <<tx, highWatermark, list, prev, node, cleaner>>
-----------------------------------------------------------------------------
(***************************************************************************)
(* TxPool.cleaner and TxPool.delete, which only the cleaner calls.          *)
(***************************************************************************)
CleanerReceive ==
    /\ cpc = "recv"
    /\ drain
    /\ drain' = FALSE
    /\ cpc' = "first"
    /\ UNCHANGED <<tx, highWatermark, list, writer, cnode, cnext, stopped>>

CleanerFirst ==
    /\ cpc = "first"
    /\ cnode' = next[Head]
    /\ cpc' = "eval"
    /\ UNCHANGED <<tx, highWatermark, list, drain, writer, cnext, stopped>>

\* mutant: any later transaction raises the watermark, not only the next one
CleanerEvalSkipsGaps ==
    /\ cpc = "eval"
    /\ cpc' = CASE cnode # Tail /\ highWatermark < cnode  -> "store"
                [] cnode # Tail /\ highWatermark >= cnode -> "mark"
                [] OTHER                                  -> "recv"
    /\ UNCHANGED <<tx, highWatermark, list, drain, writer, cnode, cnext, stopped>>

\* mutant: a node above the watermark is deleted like one below it
CleanerEvalDeletesAll ==
    /\ cpc = "eval"
    /\ cpc' = CASE cnode # Tail /\ highWatermark + 1 = cnode -> "store"
                [] cnode # Tail /\ highWatermark + 1 # cnode -> "mark"
                [] OTHER                                     -> "recv"
    /\ UNCHANGED <<tx, highWatermark, list, drain, writer, cnode, cnext, stopped>>

\* mutant: the walk stops at a node that commit itself has already accounted for
CleanerEvalStopsEarly ==
    /\ cpc = "eval"
    /\ cpc' = IF cnode # Tail /\ highWatermark + 1 = cnode THEN "store" ELSE "recv"
    /\ UNCHANGED <<tx, highWatermark, list, drain, writer, cnode, cnext, stopped>>

\* the end of the list, or deleteFunc's load of the watermark and its switch
CleanerEval ==
    /\ cpc = "eval"
    /\ cpc' = CASE cnode # Tail /\ highWatermark + 1 = cnode -> "store"
                [] cnode # Tail /\ highWatermark >= cnode    -> "mark"
                [] OTHER                                     -> "recv"
    /\ UNCHANGED <<tx, highWatermark, list, drain, writer, cnode, cnext, stopped>>

CleanerStore ==
    /\ cpc = "store"
    /\ highWatermark' = cnode
    /\ cpc' = "mark"
    /\ UNCHANGED <<tx, list, drain, writer, cnode, cnext, stopped>>

\* the load of next and the compare-and-swap, which is retried until it succeeds
CleanerMark ==
    /\ cpc = "mark"
    /\ IF Marked(cnode)
       THEN cpc' = "advance" /\ UNCHANGED <<next, cnext>>
       ELSE /\ cnext' = next[cnode]
            /\ next' = [next EXCEPT ![cnode] = Nil]
            /\ cpc' = "original"
    /\ UNCHANGED <<tx, highWatermark, original, linked, drain, writer, cnode, stopped>>

\* mutant: the pointer of a marked node is never published
CleanerOriginalLost ==
    /\ cpc = "original"
    /\ cpc' = "advance"
    /\ UNCHANGED <<tx, highWatermark, list, drain, writer, cnode, cnext, stopped>>

CleanerOriginal ==
    /\ cpc = "original"
    /\ original' = [original EXCEPT ![cnode] = cnext]
    /\ cpc' = "advance"
    /\ UNCHANGED <<tx, highWatermark, next, linked, drain, writer, cnode, cnext, stopped>>

\* mutant: the walk follows next without looking for the mark
CleanerAdvanceBlind ==
    /\ cpc = "advance"
    /\ cnode' = next[cnode]
    /\ cpc' = "eval"
    /\ UNCHANGED <<tx, highWatermark, list, drain, writer, cnext, stopped>>

CleanerAdvance ==
    /\ cpc = "advance"
    /\ Readable(cnode)
    /\ cnode' = Successor(cnode)
    /\ cpc' = "eval"
    /\ UNCHANGED <<tx, highWatermark, list, drain, writer, cnext, stopped>>

\* the select of cleaner takes either ready branch once the context is done
CleanerExit ==
    /\ cpc = "recv"
    /\ stopped
    /\ cpc' = "exited"
    /\ UNCHANGED <<tx, highWatermark, list, drain, writer, cnode, cnext, stopped>>

Stop ==
    /\ ~stopped
    /\ stopped' = TRUE
    /\ UNCHANGED <<tx, highWatermark, list, drain, writer, cpc, cnode, cnext>>
-----------------------------------------------------------------------------
Commit(t) ==
    \/ CommitLoad(t)  \/ CommitStore(t)
    \/ InsertStart(t) \/ InsertVisit(t) \/ InsertHelp(t)
    \/ InsertAdvance(t) \/ InsertLink(t) \/ InsertNotify(t)

Cleaner ==
    \/ CleanerReceive \/ CleanerFirst \/ CleanerEval \/ CleanerStore
    \/ CleanerMark \/ CleanerOriginal \/ CleanerAdvance \/ CleanerExit

Next ==
    \/ \E t \in Txns : Begin(t) \/ Commit(t)
    \/ Cleaner
    \/ Stop

Spec == Init /\ [][Next]_vars

(***************************************************************************)
(* Goroutines that can run do run.  A writer that has entered commit        *)
(* finishes it; nothing makes a writer begin or reach its commit.           *)
(***************************************************************************)
Fairness ==
    /\ \A t \in Txns : WF_vars(pc[t] # "running" /\ Commit(t))
    /\ WF_vars(Cleaner)

FairSpec == Spec /\ Fairness
-----------------------------------------------------------------------------
(***************************************************************************)
(* Properties.                                                              *)
(***************************************************************************)

\* Every variable keeps its type: pointers are nodes or nil, and program
\* counters are labels of the code.
TypeOK ==
    /\ tx \in 0..MaxTx
    /\ highWatermark \in 0..MaxTx
    /\ next \in [Nodes -> Nodes \union {Nil}]
    /\ original \in [Nodes -> Nodes \union {Nil}]
    /\ drain \in BOOLEAN
    /\ pc \in [Txns -> WriterPCs]
    /\ prev \in [Txns -> Nodes]
    /\ node \in [Txns -> Nodes]
    /\ cpc \in CleanerPCs
    /\ cnode \in Nodes
    /\ cnext \in Nodes \union {Nil}
    /\ stopped \in BOOLEAN
    /\ linked \subseteq Nodes

\* beginRead: "Reads can safely access any write that has a lower or equal tx
\* id than the returned number": every transaction at or below the watermark
\* has called its commit function, whoever raised the watermark.
WatermarkOnlyCompleted == 1..highWatermark \subseteq Completed

\* The list stays one sorted chain through concurrent insertions, marking and
\* unlinking: from every linked node the walk goes on to the very next linked
\* node, so that a walk from the head skips none of them and ends at the tail.
\* (While the cleaner is between its two stores to a node it alone holds the
\* pointer, and all others spin.)
Onward(n) == IF cpc = "original" /\ cnode = n THEN cnext ELSE Successor(n)

SortedChain ==
    /\ {Head, Tail} \subseteq linked
    /\ \A n \in linked \ {Tail} :
          /\ Onward(n) \in linked
          /\ n < Onward(n)
          /\ \A m \in linked : ~(n < m /\ m < Onward(n))

\* Nothing is lost: a transaction whose insertion succeeded is in the chain and
\* not marked deleted as long as the watermark is below it.
NoTransactionLost ==
    \A t \in Published : t > highWatermark => t \in linked /\ ~Marked(t)

\* The wakeup of the cleaner is never lost: when the transaction the watermark
\* waits for is in the list, then a token is in the channel, or a commit under
\* way has yet to send one, or the cleaner (if it has not exited) is on its way
\* to the node.
WakeupPending ==
    highWatermark + 1 \in Published =>
        \/ drain
        \/ \E t \in Completed : pc[t] # "done"
        \/ cpc \in {"exited", "first"}
        \/ cpc \in {"eval", "store", "mark", "original", "advance"} /\ cnode <= highWatermark + 1

\* DB.Wait returns: once every transaction up to t has entered its commit
\* function, the watermark reaches t, unless the pool has been stopped.
WatermarkCatchesUp ==
    \A t \in Txns : (1..t \subseteq Completed) ~> (highWatermark >= t \/ stopped)

\* A commit finishes: retries after a lost compare-and-swap and the spinning
\* on a marked node whose original pointer is not yet set both end.
CommitFinishes ==
    \A t \in Txns : t \in Completed ~> pc[t] = "done"

\* The pool implements the watermark that readers rely on: the watermark moves
\* one completed transaction at a time and never back.
Abstract == INSTANCE Watermark WITH completed <- Completed, watermark <- highWatermark

ImplementsWatermark == Abstract!Spec
=============================================================================
