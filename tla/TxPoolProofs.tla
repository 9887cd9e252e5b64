---------------------------- MODULE TxPoolProofs ----------------------------
(***************************************************************************)
(* Proofs about TxPool, for every number of transactions.                   *)
(***************************************************************************)
EXTENDS TxPool, TLAPS

(***************************************************************************)
(* The inductive invariant, in four parts.                                  *)
(*                                                                         *)
(* WatermarkInv: who may be about to raise the watermark, and to what.      *)
(***************************************************************************)
WatermarkInv ==
    /\ WatermarkOnlyCompleted
    /\ \A t \in Txns : pc[t] = "store" => highWatermark + 1 = t
    /\ cpc = "store" => highWatermark + 1 = cnode

(***************************************************************************)
(* PointerInv: pointers lead to published nodes or the tail, and only       *)
(* forward; a node is unmarked, marked with its original pointer set, or    *)
(* being marked by the cleaner.                                             *)
(***************************************************************************)
Reached == Published \union {Tail}

NextForward ==
    \A n \in Nodes : next[n] # Nil => next[n] \in Reached /\ n < next[n]

OriginalForward ==
    \A n \in Nodes : original[n] # Nil =>
        original[n] \in Reached /\ n < original[n] /\ next[n] = Nil

UnpublishedBlank ==
    \A n \in Nodes : n \notin Published \union {Head} =>
        next[n] = Nil /\ original[n] = Nil

NeverStuck ==
    \A n \in Published : next[n] # Nil \/ original[n] # Nil \/ (cpc = "original" /\ cnode = n)

MarkedBelowWatermark ==
    \A n \in Published : next[n] = Nil => n <= highWatermark

PointerInv ==
    /\ next[Head] # Nil
    /\ NextForward
    /\ OriginalForward
    /\ UnpublishedBlank
    /\ NeverStuck
    /\ MarkedBelowWatermark

(***************************************************************************)
(* WalkInv: what the local variables of an insertion and of the cleaner     *)
(* point at.                                                                *)
(***************************************************************************)
WalkerPlace ==
    \A t \in Txns : pc[t] \in {"visit", "help", "advance", "link"} =>
        /\ prev[t] \in Published \union {Head}
        /\ prev[t] < t
        /\ node[t] \in Reached

WalkerHelp ==
    \A t \in Txns : pc[t] = "help" =>
        node[t] # Tail /\ next[node[t]] = Nil /\ original[node[t]] # Nil

WalkerOrder ==
    /\ \A t \in Txns : pc[t] = "advance" => node[t] # Tail /\ node[t] < t
    /\ \A t \in Txns : pc[t] = "link" => node[t] > t

CleanerPlace ==
    /\ cpc = "eval" => cnode \in Reached
    /\ cpc \in {"store", "mark", "original", "advance"} => cnode \in Published
    /\ cpc \in {"mark", "original", "advance"} => cnode <= highWatermark

CleanerHolds ==
    cpc = "original" =>
        /\ next[cnode] = Nil
        /\ original[cnode] = Nil
        /\ cnext \in Reached
        /\ cnode < cnext

WalkInv == WalkerPlace /\ WalkerHelp /\ WalkerOrder /\ CleanerPlace /\ CleanerHolds

(***************************************************************************)
(* ChainInv: the linked nodes are a chain that holds every unmarked node.   *)
(***************************************************************************)
ChainMembers ==
    /\ linked \subseteq Published \union {Head, Tail}
    /\ \A n \in Published : next[n] # Nil => n \in linked

ChainInv == SortedChain /\ ChainMembers

IInv == TypeOK /\ WatermarkInv /\ PointerInv /\ WalkInv /\ ChainInv
-----------------------------------------------------------------------------
(***************************************************************************)
(* How the set of published transactions changes: only a successful link    *)
(* adds to it.                                                              *)
(***************************************************************************)
LEMMA PublishedSame ==
  ASSUME TypeOK, NEW t \in Txns, NEW label,
         pc' = [pc EXCEPT ![t] = label],
         pc[t] \in {"notify", "done"} <=> label \in {"notify", "done"}
  PROVE  Published' = Published
BY DEF TypeOK, Published

\* A successful link adds exactly the transaction that is linked.
LEMMA PublishedMore ==
  ASSUME TypeOK, NEW t \in Txns, pc' = [pc EXCEPT ![t] = "notify"]
  PROVE  Published' = Published \union {t}
BY DEF TypeOK, Published

\* Published transactions are list nodes, and so is all that can be reached.
LEMMA PublishedNodes ==
  /\ Published \subseteq Txns
  /\ Txns \subseteq Nodes /\ Head \in Nodes /\ Tail \in Nodes
  /\ Nil \notin Nodes /\ Head \notin Txns /\ Tail \notin Txns /\ Head # Tail
  /\ Reached \subseteq Nodes
BY MaxTxAssumption DEF Published, Txns, Nodes, Head, Tail, Nil, Reached

(***************************************************************************)
(* The three compare-and-swaps that change the list, each as the facts the  *)
(* invariant gives about the nodes it touches.                              *)
(***************************************************************************)
LEMMA LinkFacts ==
  ASSUME IInv, NEW t \in Txns, InsertLink(t), next[prev[t]] = node[t]
  PROVE  /\ Published' = Published \union {t}
         /\ t \notin Published /\ t \notin linked
         /\ next[t] = Nil /\ original[t] = Nil
         /\ prev[t] \in Nodes /\ prev[t] # t
         /\ prev[t] \in Published \union {Head} /\ prev[t] < t
         /\ node[t] \in Reached /\ t < node[t]
         /\ prev[t] \in linked
         /\ next' = [next EXCEPT ![t] = node[t], ![prev[t]] = t]
         /\ linked' = linked \union {t}
<1> USE DEF IInv
<1>1. pc[t] = "link" /\ pc' = [pc EXCEPT ![t] = "notify"]
  BY DEF InsertLink, Goto
<1>2. t \notin Published
  BY <1>1 DEF Published
<1>3. t \in Nodes /\ t # Head /\ t # Tail
  BY MaxTxAssumption DEF Txns, Nodes, Head, Tail
<1>4. next[t] = Nil /\ original[t] = Nil
  BY <1>2, <1>3 DEF PointerInv, UnpublishedBlank
<1>5. /\ prev[t] \in Published \union {Head} /\ prev[t] < t
      /\ node[t] \in Reached /\ t < node[t]
  BY <1>1, PublishedNodes, MaxTxAssumption
  DEF WalkInv, WalkerPlace, WalkerOrder, TypeOK, Nodes, Txns
<1>6. next[prev[t]] # Nil
  BY <1>5, PublishedNodes
<1>7. prev[t] \in linked
  BY <1>5, <1>6 DEF ChainInv, ChainMembers, SortedChain
<1>8. t \notin linked
  BY <1>2, <1>3 DEF ChainInv, ChainMembers
<1> QED
  BY <1>1, <1>2, <1>4, <1>5, <1>7, <1>8, PublishedMore, PublishedNodes, MaxTxAssumption, Zenon
  DEF InsertLink, Txns, Head

\* The compare-and-swap of InsertHelp unlinks a marked node below the watermark.
LEMMA HelpFacts ==
  ASSUME IInv, NEW t \in Txns, InsertHelp(t), next[prev[t]] = node[t]
  PROVE  /\ Published' = Published
         /\ prev[t] \in Nodes /\ prev[t] \in Published \union {Head}
         /\ prev[t] \in linked /\ prev[t] < node[t]
         /\ node[t] \in Published /\ node[t] \in linked
         /\ next[node[t]] = Nil
         /\ original[node[t]] \in Reached /\ node[t] < original[node[t]]
         /\ ~(cpc = "original" /\ cnode \in {prev[t], node[t]})
         /\ next' = [next EXCEPT ![prev[t]] = original[node[t]]]
         /\ linked' = linked \ {node[t]}
<1> USE DEF IInv
<1>1. pc[t] = "help" /\ pc' = [pc EXCEPT ![t] = "start"]
  BY DEF InsertHelp, Goto
<1>2. Published' = Published
  BY <1>1, PublishedSame, Zenon
<1>3. /\ prev[t] \in Published \union {Head}
      /\ node[t] \in Published /\ next[node[t]] = Nil /\ original[node[t]] # Nil
  BY <1>1 DEF WalkInv, WalkerPlace, WalkerHelp, Reached
<1>4. prev[t] \in Nodes /\ node[t] \in Nodes /\ node[t] # Nil /\ next[prev[t]] # Nil
  BY <1>3, PublishedNodes
<1>5. prev[t] < node[t]
  BY <1>4 DEF PointerInv, NextForward
<1>6. original[node[t]] \in Reached /\ node[t] < original[node[t]]
  BY <1>3, <1>4 DEF PointerInv, OriginalForward
<1>7. prev[t] \in linked
  BY <1>3, <1>4 DEF ChainInv, ChainMembers, SortedChain
<1>8. ~(cpc = "original" /\ cnode \in {prev[t], node[t]})
  BY <1>3, <1>4 DEF WalkInv, CleanerHolds
<1>9. prev[t] # Tail
  BY <1>3, PublishedNodes
<1>10. node[t] \in linked
  BY <1>4, <1>7, <1>8, <1>9 DEF ChainInv, SortedChain, Onward, Successor
<1> QED
  BY <1>2, <1>3, <1>4, <1>5, <1>6, <1>7, <1>8, <1>10 DEF InsertHelp

\* The compare-and-swap of CleanerMark marks a node at or below the watermark.
LEMMA MarkFacts ==
  ASSUME IInv, CleanerMark, next[cnode] # Nil
  PROVE  /\ Published' = Published
         /\ cnode \in Published /\ cnode \in Nodes /\ cnode # Head
         /\ cnode <= highWatermark
         /\ original[cnode] = Nil
         /\ next[cnode] \in Reached /\ cnode < next[cnode]
         /\ next' = [next EXCEPT ![cnode] = Nil]
         /\ cpc = "mark" /\ cpc' = "original" /\ cnode' = cnode /\ cnext' = next[cnode]
<1> USE DEF IInv
<1>1. cnode \in Published /\ cnode <= highWatermark
  BY DEF CleanerMark, WalkInv, CleanerPlace
<1>2. cnode \in Nodes /\ cnode # Head
  BY <1>1, PublishedNodes
<1>3. original[cnode] = Nil /\ next[cnode] \in Reached /\ cnode < next[cnode]
  BY <1>2 DEF PointerInv, OriginalForward, NextForward
<1> QED
  BY <1>1, <1>2, <1>3 DEF CleanerMark, Marked, writer, Published

(***************************************************************************)
(* Steps of a writer that change neither the list nor what is published.    *)
(***************************************************************************)
Quiet(t) ==
    \/ Begin(t) \/ CommitLoad(t) \/ CommitStore(t)
    \/ InsertStart(t) \/ InsertVisit(t) \/ InsertAdvance(t) \/ InsertNotify(t)
    \/ InsertHelp(t) /\ next[prev[t]] # node[t]
    \/ InsertLink(t) /\ next[prev[t]] # node[t]

\* These steps change no pointer, and the watermark only rises.
LEMMA QuietFacts ==
  ASSUME IInv, NEW t \in Txns, Quiet(t)
  PROVE  /\ Published' = Published
         /\ UNCHANGED <<next, original, linked, cleaner>>
         /\ highWatermark \in Nat /\ highWatermark' \in Nat
         /\ highWatermark' >= highWatermark
<1>1. UNCHANGED <<next, original, linked, cleaner>>
  BY DEF Quiet, Begin, CommitLoad, CommitStore, InsertStart, InsertVisit, InsertAdvance,
         InsertNotify, InsertHelp, InsertLink, list
<1>2. PICK label :
          /\ pc' = [pc EXCEPT ![t] = label]
          /\ pc[t] \in {"notify", "done"} <=> label \in {"notify", "done"}
  BY DEF Quiet, Begin, CommitLoad, CommitStore, InsertStart, InsertVisit, InsertAdvance,
         InsertNotify, InsertHelp, InsertLink, Goto
<1>3. TypeOK /\ Published' = Published
  BY <1>2, PublishedSame, Zenon DEF IInv
<1>4. \/ highWatermark' = highWatermark
      \/ pc[t] = "store" /\ highWatermark' = t
  BY DEF Quiet, Begin, CommitLoad, CommitStore, InsertStart, InsertVisit, InsertAdvance,
         InsertNotify, InsertHelp, InsertLink
<1>5. pc[t] = "store" => highWatermark + 1 = t
  BY DEF IInv, WatermarkInv
<1> QED
  BY <1>1, <1>3, <1>4, <1>5, MaxTxAssumption DEF TypeOK, Txns

(***************************************************************************)
(* Steps that leave the list alone cannot disturb what is said of it.       *)
(***************************************************************************)
LEMMA PointerFrame ==
  ASSUME PointerInv, Published' = Published, UNCHANGED <<next, original>>,
         highWatermark' \in Nat, highWatermark \in Nat, highWatermark' >= highWatermark,
         (cpc = "original" \/ cpc' = "original") => UNCHANGED <<cpc, cnode>>
  PROVE  PointerInv'
BY MaxTxAssumption
DEF PointerInv, NextForward, OriginalForward, UnpublishedBlank, NeverStuck,
    MarkedBelowWatermark, Reached, Published, Txns

\* The same for the chain.
LEMMA ChainFrame ==
  ASSUME ChainInv, Published' = Published, UNCHANGED <<next, original, linked>>,
         (cpc = "original" \/ cpc' = "original") => UNCHANGED <<cpc, cnode, cnext>>
  PROVE  ChainInv'
BY DEF ChainInv, ChainMembers, SortedChain, Onward, Successor

\* Every step keeps the types.
LEMMA TypeStep == IInv /\ [Next]_vars => TypeOK'
<1> SUFFICES ASSUME IInv, [Next]_vars PROVE TypeOK'
  OBVIOUS
<1> USE MaxTxAssumption DEF IInv, TypeOK, Txns, Nodes, Head, Tail, Nil, Goto, Marked, Readable, Successor, list, writer, cleaner
<1>1. ASSUME NEW t \in Txns, Begin(t) \/ Commit(t) PROVE TypeOK'
  <2>1. CASE Begin(t)
    BY <2>1 DEF Begin, WriterPCs
  <2>2. CASE CommitLoad(t)
    BY <2>2 DEF CommitLoad, WriterPCs
  <2>3. CASE CommitStore(t)
    <3>1. pc' \in [Txns -> WriterPCs]
      BY <2>3 DEF CommitStore, WriterPCs
    <3>2. highWatermark' \in 0..MaxTx
      BY <2>3 DEF CommitStore
    <3> QED
      BY <2>3, <3>1, <3>2 DEF CommitStore
  <2>4. CASE InsertStart(t)
    BY <2>4 DEF InsertStart, PointerInv, WriterPCs
  <2>5. CASE InsertVisit(t)
    BY <2>5 DEF InsertVisit, WriterPCs
  <2>6. CASE InsertHelp(t)
    BY <2>6, Zenon DEF InsertHelp, WriterPCs
  <2>7. CASE InsertAdvance(t)
    BY <2>7, Zenon DEF InsertAdvance, WriterPCs
  <2>8. CASE InsertLink(t)
    <3>1. CASE next[prev[t]] = node[t]
      <4>1. t \in Nodes /\ next' = [next EXCEPT ![t] = node[t], ![prev[t]] = t] /\ linked' = linked \union {t}
        BY <2>8, <3>1 DEF InsertLink
      <4>2. next' \in [Nodes -> Nodes \union {Nil}]
        <5>1. node[t] \in Nodes /\ next \in [Nodes -> Nodes \union {Nil}]
          OBVIOUS
        <5> HIDE DEF IInv, TypeOK, Nodes, Nil
        <5> QED
          BY <4>1, <5>1, Zenon
      <4>3. pc' \in [Txns -> WriterPCs] /\ UNCHANGED <<tx, highWatermark, original, drain, prev, node, cleaner>>
        BY <2>8, SMTT(30) DEF InsertLink, WriterPCs
      <4> QED
        BY <4>1, <4>2, <4>3, Zenon
    <3>2. CASE next[prev[t]] # node[t]
      BY <2>8, <3>2, Zenon DEF InsertLink, WriterPCs
    <3> QED
      BY <3>1, <3>2, Zenon
  <2>9. CASE InsertNotify(t)
    BY <2>9 DEF InsertNotify, WriterPCs
  <2> QED
    BY <1>1, <2>1, <2>2, <2>3, <2>4, <2>5, <2>6, <2>7, <2>8, <2>9, Zenon DEF Commit
<1>2. CASE CleanerReceive
  BY <1>2, Zenon DEF CleanerReceive, CleanerPCs
<1>3. CASE CleanerFirst
  BY <1>3 DEF CleanerFirst, PointerInv, CleanerPCs
<1>4. CASE CleanerEval
  BY <1>4 DEF CleanerEval, CleanerPCs
<1>5. CASE CleanerStore
  BY <1>5 DEF CleanerStore, WalkInv, CleanerPlace, Published, CleanerPCs
<1>6. CASE CleanerMark
  BY <1>6, Zenon DEF CleanerMark, CleanerPCs
<1>7. CASE CleanerOriginal
  BY <1>7 DEF CleanerOriginal, CleanerPCs
<1>8. CASE CleanerAdvance
  BY <1>8 DEF CleanerAdvance, CleanerPCs
<1>9. CASE CleanerExit
  BY <1>9 DEF CleanerExit, CleanerPCs
<1>10. CASE Stop
  BY <1>10 DEF Stop
<1>11. CASE UNCHANGED vars
  BY <1>11 DEF vars
<1> QED
  BY <1>1, <1>2, <1>3, <1>4, <1>5, <1>6, <1>7, <1>8, <1>9, <1>10, <1>11, Zenon DEF Next, Cleaner

\* Every step keeps what is said of the watermark.
LEMMA WatermarkStep == IInv /\ [Next]_vars => WatermarkInv'
<1> SUFFICES ASSUME IInv, [Next]_vars PROVE WatermarkInv'
  OBVIOUS
<1> USE MaxTxAssumption DEF IInv, TypeOK, WatermarkInv, Txns, Nodes, Head, Tail, Nil, Goto, Marked, Readable, Successor, list, writer, cleaner
<1>1. ASSUME NEW t \in Txns, Begin(t) \/ Commit(t) PROVE WatermarkInv'
  <2>1. CASE Begin(t)
    BY <2>1 DEF Begin, WatermarkOnlyCompleted, WalkInv, CleanerPlace, Completed, Published
  <2>2. CASE CommitLoad(t)
    BY <2>2 DEF CommitLoad, WatermarkOnlyCompleted, WalkInv, CleanerPlace, Completed, Published
  <2>3. CASE CommitStore(t)
    BY <2>3 DEF CommitStore, WatermarkOnlyCompleted, WalkInv, CleanerPlace, Completed, Published
  <2>4. CASE InsertStart(t)
    BY <2>4 DEF InsertStart, WatermarkOnlyCompleted, WalkInv, CleanerPlace, Completed, Published
  <2>5. CASE InsertVisit(t)
    BY <2>5 DEF InsertVisit, WatermarkOnlyCompleted, WalkInv, CleanerPlace, Completed, Published
  <2>6. CASE InsertHelp(t)
    BY <2>6 DEF InsertHelp, WatermarkOnlyCompleted, WalkInv, CleanerPlace, Completed, Published
  <2>7. CASE InsertAdvance(t)
    BY <2>7 DEF InsertAdvance, WatermarkOnlyCompleted, WalkInv, CleanerPlace, Completed, Published
  <2>8. CASE InsertLink(t)
    BY <2>8, Zenon DEF InsertLink, WatermarkOnlyCompleted, WalkInv, CleanerPlace, Completed, Published
  <2>9. CASE InsertNotify(t)
    BY <2>9 DEF InsertNotify, WatermarkOnlyCompleted, WalkInv, CleanerPlace, Completed, Published
  <2> QED
    BY <1>1, <2>1, <2>2, <2>3, <2>4, <2>5, <2>6, <2>7, <2>8, <2>9 DEF Commit
<1>2. CASE CleanerReceive
  BY <1>2 DEF CleanerReceive, WatermarkOnlyCompleted, WalkInv, CleanerPlace, Completed, Published
<1>3. CASE CleanerFirst
  BY <1>3 DEF CleanerFirst, WatermarkOnlyCompleted, WalkInv, CleanerPlace, Completed, Published
<1>4. CASE CleanerEval
  BY <1>4 DEF CleanerEval, WatermarkOnlyCompleted, WalkInv, CleanerPlace, Completed, Published
<1>5. CASE CleanerStore
  BY <1>5 DEF CleanerStore, WatermarkOnlyCompleted, WalkInv, CleanerPlace, Completed, Published
<1>6. CASE CleanerMark
  BY <1>6 DEF CleanerMark, WatermarkOnlyCompleted, WalkInv, CleanerPlace, Completed, Published
<1>7. CASE CleanerOriginal
  BY <1>7 DEF CleanerOriginal, WatermarkOnlyCompleted, WalkInv, CleanerPlace, Completed, Published
<1>8. CASE CleanerAdvance
  BY <1>8 DEF CleanerAdvance, WatermarkOnlyCompleted, WalkInv, CleanerPlace, Completed, Published
<1>9. CASE CleanerExit
  BY <1>9 DEF CleanerExit, WatermarkOnlyCompleted, WalkInv, CleanerPlace, Completed, Published
<1>10. CASE Stop
  BY <1>10 DEF Stop, WatermarkOnlyCompleted, WalkInv, CleanerPlace, Completed, Published
<1>11. CASE UNCHANGED vars
  BY <1>11 DEF vars, list, writer, cleaner, WatermarkOnlyCompleted, WalkInv, CleanerPlace, Completed, Published
<1> QED
  BY <1>1, <1>2, <1>3, <1>4, <1>5, <1>6, <1>7, <1>8, <1>9, <1>10, <1>11 DEF Next, Cleaner

\* Every step keeps what is said of the pointers.
LEMMA PointerStep == IInv /\ [Next]_vars => PointerInv'
<1> SUFFICES ASSUME IInv, [Next]_vars PROVE PointerInv'
  OBVIOUS
<1> USE MaxTxAssumption DEF IInv
<1>1. ASSUME NEW t \in Txns, Begin(t) \/ Commit(t) PROVE PointerInv'
  <2>1. CASE Begin(t)
    BY <2>1, QuietFacts, PointerFrame DEF Quiet, cleaner
  <2>2. CASE CommitLoad(t)
    BY <2>2, QuietFacts, PointerFrame DEF Quiet, cleaner
  <2>3. CASE CommitStore(t)
    BY <2>3, QuietFacts, PointerFrame DEF Quiet, cleaner
  <2>4. CASE InsertStart(t)
    BY <2>4, QuietFacts, PointerFrame DEF Quiet, cleaner
  <2>5. CASE InsertVisit(t)
    BY <2>5, QuietFacts, PointerFrame DEF Quiet, cleaner
  <2>6. CASE InsertHelp(t)
    <3>1. CASE next[prev[t]] = node[t]
      <4> HIDE DEF IInv
      <4>0. /\ UNCHANGED <<original, cpc, cnode, highWatermark>>
            /\ PointerInv /\ next \in [Nodes -> Nodes \union {Nil}]
        BY <2>6 DEF InsertHelp, cleaner, IInv, TypeOK
      <4>1. (next[Head] # Nil)'
        BY <2>6, <3>1, <4>0, HelpFacts, PublishedNodes DEF PointerInv
      <4>2. NextForward'
        <5>1. prev[t] \in Nodes /\ next' = [next EXCEPT ![prev[t]] = original[node[t]]] /\ Reached' = Reached
          BY <2>6, <3>1, HelpFacts, PublishedNodes DEF Reached, Tail
        <5>2. original[node[t]] \in Reached /\ prev[t] < original[node[t]]
          <6>1. /\ prev[t] \in Nodes /\ node[t] \in Nodes /\ original[node[t]] \in Nodes
                /\ original[node[t]] \in Reached /\ prev[t] < node[t] /\ node[t] < original[node[t]]
            BY <2>6, <3>1, HelpFacts, PublishedNodes
          <6> QED
            BY <6>1, MaxTxAssumption DEF Nodes
        <5> QED
          BY <4>0, <5>1, <5>2 DEF PointerInv, NextForward
      <4>3. OriginalForward'
        BY <2>6, <3>1, <4>0, HelpFacts, PublishedNodes DEF PointerInv, OriginalForward, Reached
      <4>4. UnpublishedBlank'
        BY <2>6, <3>1, <4>0, HelpFacts DEF PointerInv, UnpublishedBlank
      <4>5. NeverStuck' /\ MarkedBelowWatermark'
        BY <2>6, <3>1, <4>0, HelpFacts, PublishedNodes DEF PointerInv, NeverStuck, MarkedBelowWatermark
      <4> QED
        BY <4>1, <4>2, <4>3, <4>4, <4>5 DEF PointerInv
    <3>2. CASE next[prev[t]] # node[t]
      BY <2>6, <3>2, QuietFacts, PointerFrame DEF Quiet, cleaner
    <3> QED
      BY <3>1, <3>2
  <2>7. CASE InsertAdvance(t)
    BY <2>7, QuietFacts, PointerFrame DEF Quiet, cleaner
  <2>8. CASE InsertLink(t)
    <3>1. CASE next[prev[t]] = node[t]
      <4> HIDE DEF IInv
      <4>0. /\ UNCHANGED <<original, cpc, cnode, highWatermark>>
            /\ PointerInv /\ next \in [Nodes -> Nodes \union {Nil}]
        BY <2>8 DEF InsertLink, cleaner, IInv, TypeOK
      <4>1. (next[Head] # Nil)'
        BY <2>8, <3>1, <4>0, LinkFacts, PublishedNodes DEF PointerInv
      <4>2. NextForward'
        BY <2>8, <3>1, <4>0, LinkFacts, PublishedNodes, MaxTxAssumption DEF PointerInv, NextForward, Reached, Nodes
      <4>3. OriginalForward'
        BY <2>8, <3>1, <4>0, LinkFacts, PublishedNodes DEF PointerInv, OriginalForward, Reached
      <4>4. UnpublishedBlank'
        BY <2>8, <3>1, <4>0, LinkFacts DEF PointerInv, UnpublishedBlank
      <4>5. NeverStuck' /\ MarkedBelowWatermark'
        BY <2>8, <3>1, <4>0, LinkFacts, PublishedNodes DEF PointerInv, NeverStuck, MarkedBelowWatermark
      <4> QED
        BY <4>1, <4>2, <4>3, <4>4, <4>5 DEF PointerInv
    <3>2. CASE next[prev[t]] # node[t]
      BY <2>8, <3>2, QuietFacts, PointerFrame DEF Quiet, cleaner
    <3> QED
      BY <3>1, <3>2
  <2>9. CASE InsertNotify(t)
    BY <2>9, QuietFacts, PointerFrame DEF Quiet, cleaner
  <2> QED
    BY <1>1, <2>1, <2>2, <2>3, <2>4, <2>5, <2>6, <2>7, <2>8, <2>9 DEF Commit
<1>2. CASE CleanerReceive
  BY <1>2, PointerFrame DEF CleanerReceive, Published, list, writer, TypeOK
<1>3. CASE CleanerFirst
  BY <1>3, PointerFrame DEF CleanerFirst, Published, list, writer, TypeOK
<1>4. CASE CleanerEval
  BY <1>4, PointerFrame DEF CleanerEval, Published, list, writer, TypeOK
<1>5. CASE CleanerStore
  BY <1>5, PointerFrame, MaxTxAssumption DEF CleanerStore, Published, list, writer, TypeOK, WatermarkInv, Nodes
<1>6. CASE CleanerMark
  <2>1. CASE next[cnode] # Nil
    <3> HIDE DEF IInv
    <3>0. /\ UNCHANGED <<original, highWatermark>>
          /\ PointerInv /\ next \in [Nodes -> Nodes \union {Nil}]
      BY <1>6 DEF CleanerMark, IInv, TypeOK
    <3>1. (next[Head] # Nil)'
      BY <1>6, <2>1, <3>0, MarkFacts, PublishedNodes DEF PointerInv
    <3>2. NextForward' /\ OriginalForward' /\ UnpublishedBlank'
      BY <1>6, <2>1, <3>0, MarkFacts, PublishedNodes DEF PointerInv, NextForward, OriginalForward, UnpublishedBlank, Reached
    <3>3. NeverStuck' /\ MarkedBelowWatermark'
      BY <1>6, <2>1, <3>0, MarkFacts, PublishedNodes DEF PointerInv, NeverStuck, MarkedBelowWatermark
    <3> QED
      BY <3>1, <3>2, <3>3 DEF PointerInv
  <2>2. CASE next[cnode] = Nil
    BY <1>6, <2>2, PointerFrame DEF CleanerMark, Marked, Published, writer, TypeOK
  <2> QED
    BY <2>1, <2>2
<1>7. CASE CleanerOriginal
  <2> HIDE DEF IInv
  <2>0. /\ UNCHANGED <<next, highWatermark>> /\ Published' = Published
        /\ PointerInv /\ original \in [Nodes -> Nodes \union {Nil}]
        /\ original' = [original EXCEPT ![cnode] = cnext]
        /\ cnode \in Nodes /\ cnode \in Published /\ next[cnode] = Nil
        /\ cnext \in Reached /\ cnode < cnext /\ cnext # Nil
        /\ cpc = "original" /\ cpc' # "original"
    BY <1>7, PublishedNodes DEF CleanerOriginal, IInv, TypeOK, WalkInv, CleanerHolds, CleanerPlace, Published, writer
  <2>1. NextForward' /\ UnpublishedBlank' /\ MarkedBelowWatermark' /\ (next[Head] # Nil)'
    BY <2>0 DEF PointerInv, NextForward, UnpublishedBlank, MarkedBelowWatermark, Reached
  <2>2. OriginalForward'
    BY <2>0 DEF PointerInv, OriginalForward, Reached
  <2>3. NeverStuck'
    BY <2>0, PublishedNodes DEF PointerInv, NeverStuck
  <2> QED
    BY <2>1, <2>2, <2>3 DEF PointerInv
<1>8. CASE CleanerAdvance
  BY <1>8, PointerFrame DEF CleanerAdvance, Published, list, writer, TypeOK
<1>9. CASE CleanerExit
  BY <1>9, PointerFrame DEF CleanerExit, Published, list, writer, TypeOK
<1>10. CASE Stop
  BY <1>10, PointerFrame DEF Stop, Published, list, writer, TypeOK
<1>11. CASE UNCHANGED vars
  BY <1>11, PointerFrame DEF vars, list, writer, cleaner, Published, TypeOK
<1> QED
  BY <1>1, <1>2, <1>3, <1>4, <1>5, <1>6, <1>7, <1>8, <1>9, <1>10, <1>11 DEF Next, Cleaner

\* Every step keeps the chain.
LEMMA ChainStep == IInv /\ [Next]_vars => ChainInv'
<1> SUFFICES ASSUME IInv, [Next]_vars PROVE ChainInv'
  OBVIOUS
<1> USE MaxTxAssumption DEF IInv
<1>1. ASSUME NEW t \in Txns, Begin(t) \/ Commit(t) PROVE ChainInv'
  <2>1. CASE Begin(t)
    BY <2>1, QuietFacts, ChainFrame DEF Quiet, cleaner
  <2>2. CASE CommitLoad(t)
    BY <2>2, QuietFacts, ChainFrame DEF Quiet, cleaner
  <2>3. CASE CommitStore(t)
    BY <2>3, QuietFacts, ChainFrame DEF Quiet, cleaner
  <2>4. CASE InsertStart(t)
    BY <2>4, QuietFacts, ChainFrame DEF Quiet, cleaner
  <2>5. CASE InsertVisit(t)
    BY <2>5, QuietFacts, ChainFrame DEF Quiet, cleaner
  <2>6. CASE InsertHelp(t)
    <3>1. CASE next[prev[t]] = node[t]
      <4> HIDE DEF IInv
      <4>p. PICK p \in Nodes, n \in Nodes : p = prev[t] /\ n = node[t]
        BY <2>6, <3>1, HelpFacts, PublishedNodes
      <4>0. /\ UNCHANGED <<original, cleaner>> /\ SortedChain /\ ChainMembers
            /\ next \in [Nodes -> Nodes \union {Nil}] /\ linked \subseteq Nodes
        BY <2>6 DEF InsertHelp, cleaner, IInv, TypeOK, ChainInv
      <4>1. ChainMembers'
        BY <2>6, <3>1, <4>p, <4>0, HelpFacts, PublishedNodes DEF ChainMembers
      <4>2. Onward(p) = n /\ Onward(n) = original[n] /\ Onward(p)' = original[n]
        BY <2>6, <3>1, <4>p, <4>0, HelpFacts, PublishedNodes DEF Onward, Successor, cleaner
      <4>3. \A m \in linked : m # p => Onward(m)' = Onward(m)
        BY <2>6, <3>1, <4>p, <4>0, HelpFacts, PublishedNodes DEF Onward, Successor, cleaner
      <4>4. p \in linked /\ n \in linked /\ p # Tail /\ n # Tail /\ n # Head /\ linked' = linked \ {n}
        BY <2>6, <3>1, <4>p, HelpFacts, PublishedNodes
      <4>5. original[n] \in linked /\ original[n] # n /\ p < n /\ n < original[n]
        BY <2>6, <3>1, <4>p, <4>0, <4>2, <4>4, HelpFacts, PublishedNodes, MaxTxAssumption DEF SortedChain, Nodes
      <4>6. \A m \in linked \ {Tail} : m # p => Onward(m) # n
        BY <4>0, <4>2, <4>4, <4>5, MaxTxAssumption DEF SortedChain, Nodes
      <4>7. \A m \in linked : ~(p < m /\ m < original[n] /\ m # n)
        BY <4>0, <4>2, <4>4, <4>5, MaxTxAssumption DEF SortedChain, Nodes
      <4>8. p < original[n]
        <5>1. original[n] \in Nodes
          BY <4>0, <4>5
        <5> QED
          BY <5>1, <4>5, MaxTxAssumption DEF Nodes
      <4>9. SortedChain'
        <5>1. {Head, Tail} \subseteq linked'
          BY <4>0, <4>4 DEF SortedChain
        <5>2. ASSUME NEW m \in linked', m # Tail
              PROVE  /\ Onward(m)' \in linked' /\ m < Onward(m)'
                     /\ \A k \in linked' : ~(m < k /\ k < Onward(m)')
          <6>1. CASE m = p
            BY <6>1, <4>2, <4>4, <4>5, <4>7, <4>8
          <6>2. CASE m # p
            BY <6>2, <5>2, <4>0, <4>3, <4>4, <4>6 DEF SortedChain
          <6> QED
            BY <6>1, <6>2
        <5> QED
          BY <5>1, <5>2 DEF SortedChain, Tail, Head
      <4> QED
        BY <4>1, <4>9 DEF ChainInv
    <3>2. CASE next[prev[t]] # node[t]
      BY <2>6, <3>2, QuietFacts, ChainFrame DEF Quiet, cleaner
    <3> QED
      BY <3>1, <3>2
  <2>7. CASE InsertAdvance(t)
    BY <2>7, QuietFacts, ChainFrame DEF Quiet, cleaner
  <2>8. CASE InsertLink(t)
    <3>1. CASE next[prev[t]] = node[t]
      <4> HIDE DEF IInv
      <4>p. PICK p \in Nodes, n \in Nodes : p = prev[t] /\ n = node[t]
        BY <2>8, <3>1, LinkFacts, PublishedNodes
      <4>0. /\ UNCHANGED <<original, cleaner>> /\ SortedChain /\ ChainMembers
            /\ next \in [Nodes -> Nodes \union {Nil}] /\ linked \subseteq Nodes
            /\ t \in Nodes /\ n \in Nodes
        BY <2>8, <3>1, <4>p, LinkFacts, PublishedNodes DEF InsertLink, cleaner, IInv, TypeOK, ChainInv
      <4>1. ChainMembers'
        BY <2>8, <3>1, <4>p, <4>0, LinkFacts, PublishedNodes DEF ChainMembers
      <4>2. Onward(p) = n
        BY <2>8, <3>1, <4>p, <4>0, LinkFacts, PublishedNodes DEF Onward, Successor, IInv, WalkInv, CleanerHolds
      <4>3. Onward(p)' = t /\ Onward(t)' = n
        BY <2>8, <3>1, <4>p, <4>0, LinkFacts, PublishedNodes
        DEF Onward, Successor, cleaner, IInv, WalkInv, CleanerHolds, CleanerPlace
      <4>4. \A m \in linked : m # p => Onward(m)' = Onward(m)
        BY <2>8, <3>1, <4>p, <4>0, LinkFacts, PublishedNodes DEF Onward, Successor, cleaner
      <4>5. p \in linked /\ p # Tail /\ p # t /\ t \notin linked /\ linked' = linked \union {t} /\ p < t /\ t < n
        BY <2>8, <3>1, <4>p, LinkFacts, PublishedNodes
      <4>6. \A m \in linked \ {Tail} : m # p => ~(m < t /\ t < Onward(m))
        <5> SUFFICES ASSUME NEW m \in linked \ {Tail}, m # p, m < t, t < Onward(m)
                     PROVE  FALSE
          OBVIOUS
        <5>1. m \in Nodes /\ Onward(m) \in Nodes
          BY <4>0 DEF SortedChain
        <5>2. CASE m < p
          <6>1. p < Onward(m)
            BY <5>1, <4>0, <4>5, MaxTxAssumption DEF Nodes
          <6> QED
            BY <6>1, <5>2, <4>0, <4>5 DEF SortedChain
        <5>3. CASE p < m
          <6>1. m < n
            BY <5>1, <4>0, <4>5, MaxTxAssumption DEF Nodes
          <6> QED
            BY <6>1, <5>3, <4>0, <4>2, <4>5 DEF SortedChain
        <5> QED
          BY <5>1, <5>2, <5>3, MaxTxAssumption DEF Nodes
      <4>7. n \in linked /\ \A m \in linked : ~(p < m /\ m < n)
        BY <4>0, <4>2, <4>5 DEF SortedChain
      <4>8. SortedChain'
        <5>1. {Head, Tail} \subseteq linked'
          BY <4>0, <4>5 DEF SortedChain
        <5>2. ASSUME NEW m \in linked', m # Tail
              PROVE  /\ Onward(m)' \in linked' /\ m < Onward(m)'
                     /\ \A k \in linked' : ~(m < k /\ k < Onward(m)')
          <6>1. CASE m = p
            BY <6>1, <4>0, <4>3, <4>5, <4>7, MaxTxAssumption DEF Nodes
          <6>2. CASE m = t
            BY <6>2, <4>0, <4>3, <4>5, <4>7, MaxTxAssumption DEF Nodes
          <6>3. CASE m # p /\ m # t
            BY <6>3, <5>2, <4>0, <4>4, <4>5, <4>6 DEF SortedChain
          <6> QED
            BY <6>1, <6>2, <6>3
        <5> QED
          BY <5>1, <5>2 DEF SortedChain, Tail, Head
      <4> QED
        BY <4>1, <4>8 DEF ChainInv
    <3>2. CASE next[prev[t]] # node[t]
      BY <2>8, <3>2, QuietFacts, ChainFrame DEF Quiet, cleaner
    <3> QED
      BY <3>1, <3>2
  <2>9. CASE InsertNotify(t)
    BY <2>9, QuietFacts, ChainFrame DEF Quiet, cleaner
  <2> QED
    BY <1>1, <2>1, <2>2, <2>3, <2>4, <2>5, <2>6, <2>7, <2>8, <2>9 DEF Commit
<1>2. CASE CleanerReceive
  BY <1>2, ChainFrame DEF CleanerReceive, Published, list, writer
<1>3. CASE CleanerFirst
  BY <1>3, ChainFrame DEF CleanerFirst, Published, list, writer
<1>4. CASE CleanerEval
  BY <1>4, ChainFrame DEF CleanerEval, Published, list, writer
<1>5. CASE CleanerStore
  BY <1>5, ChainFrame DEF CleanerStore, Published, list, writer
<1>6. CASE CleanerMark
  <2>1. CASE next[cnode] # Nil
    <3> HIDE DEF IInv
    <3>0. /\ UNCHANGED <<original, linked>> /\ SortedChain /\ ChainMembers
          /\ next \in [Nodes -> Nodes \union {Nil}] /\ linked \subseteq Nodes
      BY <1>6 DEF CleanerMark, IInv, TypeOK, ChainInv
    <3>1. \A m \in Nodes : Onward(m)' = Onward(m)
      BY <1>6, <2>1, <3>0, MarkFacts DEF Onward, Successor
    <3>2. SortedChain'
      BY <3>0, <3>1 DEF SortedChain, Tail, Head
    <3>3. ChainMembers'
      BY <1>6, <2>1, <3>0, MarkFacts, PublishedNodes DEF ChainMembers
    <3> QED
      BY <3>2, <3>3 DEF ChainInv
  <2>2. CASE next[cnode] = Nil
    BY <1>6, <2>2, ChainFrame DEF CleanerMark, Marked, Published, writer
  <2> QED
    BY <2>1, <2>2
<1>7. CASE CleanerOriginal
  <2> HIDE DEF IInv
  <2>0. /\ UNCHANGED <<next, linked>> /\ Published' = Published
        /\ SortedChain /\ ChainMembers /\ linked \subseteq Nodes
        /\ original \in [Nodes -> Nodes \union {Nil}]
        /\ original' = [original EXCEPT ![cnode] = cnext]
        /\ cnode \in Nodes /\ next[cnode] = Nil /\ cnext # Nil
        /\ cpc = "original" /\ cpc' # "original"
    BY <1>7, PublishedNodes
    DEF CleanerOriginal, IInv, TypeOK, WalkInv, CleanerHolds, CleanerPlace, Published, writer, ChainInv
  <2>1. \A m \in Nodes : Onward(m)' = Onward(m)
    BY <2>0 DEF Onward, Successor
  <2>2. SortedChain'
    BY <2>0, <2>1 DEF SortedChain, Tail, Head
  <2>3. ChainMembers'
    BY <2>0 DEF ChainMembers
  <2> QED
    BY <2>2, <2>3 DEF ChainInv
<1>8. CASE CleanerAdvance
  BY <1>8, ChainFrame DEF CleanerAdvance, Published, list, writer
<1>9. CASE CleanerExit
  BY <1>9, ChainFrame DEF CleanerExit, Published, list, writer
<1>10. CASE Stop
  BY <1>10, ChainFrame DEF Stop, Published, list, writer
<1>11. CASE UNCHANGED vars
  BY <1>11, ChainFrame DEF vars, list, writer, cleaner, Published
<1> QED
  BY <1>1, <1>2, <1>3, <1>4, <1>5, <1>6, <1>7, <1>8, <1>9, <1>10, <1>11 DEF Next, Cleaner

(***************************************************************************)
(* What the walks of others rest on is not disturbed: quiet steps leave the *)
(* cleaner's place alone, and a writer that is not walking afterwards       *)
(* leaves every walk alone.                                                 *)
(***************************************************************************)
LEMMA CleanerFrame ==
  ASSUME IInv, NEW t \in Txns, Quiet(t)
  PROVE  CleanerPlace' /\ CleanerHolds'
<1>1. /\ Published' = Published
      /\ UNCHANGED <<next, original, cleaner>>
      /\ highWatermark \in Nat /\ highWatermark' \in Nat /\ highWatermark' >= highWatermark
  BY QuietFacts
<1>2. CleanerPlace /\ CleanerHolds /\ cnode \in Nat
  BY MaxTxAssumption DEF IInv, WalkInv, TypeOK, Nodes
<1> QED
  BY <1>1, <1>2 DEF CleanerPlace, CleanerHolds, Reached, cleaner

\* Steps before and after the walk of t.
LEMMA OffTheWalk ==
  ASSUME IInv, NEW t \in Txns, Quiet(t), UNCHANGED <<prev, node>>, NEW label,
         pc' = [pc EXCEPT ![t] = label], label \notin {"visit", "help", "advance", "link"}
  PROVE  WalkInv'
<1>1. Published' = Published /\ UNCHANGED <<next, original>>
  BY QuietFacts
<1>2. \A u \in Txns : pc'[u] \in {"visit", "help", "advance", "link"} => pc'[u] = pc[u]
  BY DEF IInv, TypeOK
<1>3. WalkerPlace' /\ WalkerHelp' /\ WalkerOrder'
  BY <1>1, <1>2 DEF IInv, WalkInv, WalkerPlace, WalkerHelp, WalkerOrder, Reached
<1> QED
  BY <1>3, CleanerFrame DEF WalkInv

\* Steps of the cleaner, which mark nodes but take no mark back.
LEMMA WalkerFrame ==
  ASSUME WalkInv, UNCHANGED <<pc, prev, node>>,
         \A n \in Published : next[n] = Nil /\ original[n] # Nil =>
                                 next'[n] = Nil /\ original'[n] # Nil
  PROVE  WalkerPlace' /\ WalkerHelp' /\ WalkerOrder'
<1>1. Published' = Published
  BY DEF Published
<1> QED
  BY <1>1 DEF WalkInv, WalkerPlace, WalkerHelp, WalkerOrder, Reached

\* Every step keeps what is said of the walks.
LEMMA WalkStep == IInv /\ [Next]_vars => WalkInv'
<1> SUFFICES ASSUME IInv, [Next]_vars PROVE WalkInv'
  OBVIOUS
<1> USE MaxTxAssumption DEF IInv, TypeOK, Txns, Nodes, Head, Tail, Nil, Goto, Marked, Readable, Successor, list, writer, cleaner
<1>1. ASSUME NEW t \in Txns, Begin(t) \/ Commit(t) PROVE WalkInv'
  <2>1. CASE Begin(t)
    <3> HIDE DEF IInv
    <3>1. UNCHANGED <<prev, node>> /\ \E label \in {"running"} : pc' = [pc EXCEPT ![t] = label]
      BY <2>1 DEF Begin
    <3> QED
      BY <2>1, <3>1, OffTheWalk, Zenon DEF Quiet
  <2>2. CASE CommitLoad(t)
    <3> HIDE DEF IInv
    <3>1. UNCHANGED <<prev, node>> /\ \E label \in {"store", "start"} : pc' = [pc EXCEPT ![t] = label]
      BY <2>2, Zenon DEF CommitLoad
    <3> QED
      BY <2>2, <3>1, OffTheWalk, Zenon DEF Quiet
  <2>3. CASE CommitStore(t)
    <3> HIDE DEF IInv
    <3>1. UNCHANGED <<prev, node>> /\ \E label \in {"start"} : pc' = [pc EXCEPT ![t] = label]
      BY <2>3 DEF CommitStore
    <3> QED
      BY <2>3, <3>1, OffTheWalk, Zenon DEF Quiet
  <2>4. CASE InsertStart(t)
    <3>1. WalkerPlace'
      <4> HIDE DEF IInv
      <4>1. Published' = Published
        BY <2>4, QuietFacts DEF Quiet
      <4>2. \A u \in Txns : u # t => pc'[u] = pc[u] /\ prev'[u] = prev[u] /\ node'[u] = node[u]
        BY <2>4 DEF IInv, InsertStart
      <4>3. prev'[t] = Head /\ node'[t] = next[Head]
        BY <2>4 DEF IInv, InsertStart
      <4>4. next[Head] \in Reached
        BY DEF IInv, PointerInv, NextForward
      <4> QED
        BY <4>1, <4>2, <4>3, <4>4 DEF IInv, WalkInv, WalkerPlace, Reached
    <3>2. WalkerHelp'
      BY <2>4 DEF InsertStart, WalkInv, WalkerPlace, WalkerHelp, PointerInv, UnpublishedBlank, OriginalForward, Reached, Published
    <3>3. WalkerOrder'
      BY <2>4 DEF InsertStart, WalkInv, WalkerPlace, WalkerOrder, Reached, Published
    <3> QED
      BY <2>4, <3>1, <3>2, <3>3, CleanerFrame, SMTT(30) DEF WalkInv, Quiet
  <2>5. CASE InsertVisit(t)
    <3>1. WalkerPlace'
      BY <2>5, Zenon DEF InsertVisit, WalkInv, WalkerPlace, WalkerOrder, PointerInv, NextForward, OriginalForward, UnpublishedBlank, Reached, Published
    <3>2. WalkerHelp'
      BY <2>5 DEF InsertVisit, WalkInv, WalkerPlace, WalkerHelp, PointerInv, UnpublishedBlank, OriginalForward, Reached, Published
    <3>3. WalkerOrder'
      <4>1. node[t] \in Reached /\ node[t] # t /\ UNCHANGED node
        BY <2>5, PublishedNodes DEF InsertVisit, WalkInv, WalkerPlace, Reached, Published
      <4>2. pc'[t] = "link" => node[t] > t
        BY <2>5, <4>1 DEF InsertVisit
      <4>3. pc'[t] = "advance" => node[t] # Tail /\ node[t] < t
        BY <2>5, <4>1 DEF InsertVisit
      <4>4. \A u \in Txns : u # t => pc'[u] = pc[u]
        BY <2>5 DEF InsertVisit
      <4> QED
        BY <4>1, <4>2, <4>3, <4>4, SMTT(30) DEF WalkInv, WalkerOrder
    <3> QED
      BY <2>5, <3>1, <3>2, <3>3, CleanerFrame, Zenon DEF WalkInv, Quiet
  <2>6. CASE InsertHelp(t)
    <3>1. WalkerPlace'
      BY <2>6, Zenon DEF InsertHelp, WalkInv, WalkerPlace, WalkerOrder, PointerInv, NextForward, OriginalForward, UnpublishedBlank, Reached, Published
    <3>2. WalkerHelp'
      <4>1. CASE next[prev[t]] = node[t]
        <5> HIDE DEF IInv
        <5>1. /\ WalkerHelp /\ WalkerPlace /\ UNCHANGED <<original, node>>
              /\ next \in [Nodes -> Nodes \union {Nil}] /\ pc \in [Txns -> WriterPCs]
              /\ \E label \in {"start", "notify"} : pc' = [pc EXCEPT ![t] = label]
          BY <2>6 DEF IInv, WalkInv, InsertHelp
        <5>2. ASSUME NEW u \in Txns, pc'[u] = "help"
              PROVE  node[u] # Tail /\ next'[node[u]] = Nil /\ original[node[u]] # Nil
          <6>1. /\ pc[u] = "help" /\ node[u] \in Published
                /\ node[u] # Tail /\ next[node[u]] = Nil /\ original[node[u]] # Nil
            BY <5>1, <5>2 DEF WalkerHelp, WalkerPlace, Reached
          <6>2. next[prev[t]] # Nil
            BY <2>6, <4>1, HelpFacts, PublishedNodes
          <6>3. node[u] # prev[t] /\ node[u] \in Nodes
            BY <6>1, <6>2, PublishedNodes, Zenon
          <6> QED
            BY <2>6, <4>1, <5>1, <6>1, <6>3, HelpFacts
        <5> QED
          BY <5>1, <5>2 DEF WalkerHelp
      <4>2. CASE next[prev[t]] # node[t]
        BY <2>6, <4>2 DEF InsertHelp, WalkInv, WalkerHelp
      <4> QED
        BY <4>1, <4>2
    <3>3. WalkerOrder'
      BY <2>6 DEF InsertHelp, WalkInv, WalkerPlace, WalkerOrder, Reached, Published
    <3>4. CleanerPlace'
      BY <2>6 DEF InsertHelp, WalkInv, CleanerPlace, WatermarkInv, Reached, Published
    <3>5. CleanerHolds'
      <4>1. CASE next[prev[t]] = node[t]
        <5> HIDE DEF IInv
        <5>1. /\ CleanerHolds /\ CleanerPlace /\ UNCHANGED <<original, cleaner>>
              /\ next \in [Nodes -> Nodes \union {Nil}]
          BY <2>6 DEF IInv, WalkInv, InsertHelp
        <5>2. ASSUME cpc = "original"
              PROVE  next'[cnode] = Nil /\ cnext \in Reached'
          <6>1. /\ cnode \in Published /\ cnext \in Reached
                /\ next[cnode] = Nil /\ original[cnode] = Nil
            BY <5>1, <5>2 DEF CleanerHolds, CleanerPlace
          <6>2. next[prev[t]] # Nil
            BY <2>6, <4>1, HelpFacts, PublishedNodes
          <6>3. cnode # prev[t] /\ cnode \in Nodes
            BY <6>1, <6>2, PublishedNodes
          <6> QED
            BY <2>6, <4>1, <5>1, <6>1, <6>3, HelpFacts DEF Reached
        <5> QED
          BY <5>1, <5>2 DEF CleanerHolds
      <4>2. CASE next[prev[t]] # node[t]
        BY <2>6, <4>2 DEF InsertHelp, WalkInv, CleanerHolds, Reached, Published
      <4> QED
        BY <4>1, <4>2
    <3> QED
      BY <3>1, <3>2, <3>3, <3>4, <3>5 DEF WalkInv
  <2>7. CASE InsertAdvance(t)
    <3>1. WalkerPlace'
      <4> HIDE DEF IInv, TypeOK
      <4>1. Published' = Published
        BY <2>7, QuietFacts DEF Quiet
      <4>2. \A u \in Txns : u # t => pc'[u] = pc[u] /\ prev'[u] = prev[u] /\ node'[u] = node[u]
        BY <2>7 DEF IInv, TypeOK, InsertAdvance
      <4>3. prev'[t] = node[t] /\ node'[t] = Successor(node[t])
        BY <2>7 DEF IInv, TypeOK, InsertAdvance
      <4>4. node[t] \in Published /\ node[t] < t
        BY <2>7 DEF IInv, InsertAdvance, WalkInv, WalkerPlace, WalkerOrder, Reached
      <4>5. Successor(node[t]) \in Reached
        BY <2>7, <4>4, PublishedNodes, Zenon DEF IInv, InsertAdvance, PointerInv, NextForward, OriginalForward
      <4> QED
        BY <4>1, <4>2, <4>3, <4>4, <4>5 DEF IInv, WalkInv, WalkerPlace, Reached
    <3>2. WalkerHelp'
      BY <2>7 DEF InsertAdvance, WalkInv, WalkerPlace, WalkerHelp, PointerInv, UnpublishedBlank, OriginalForward, Reached, Published
    <3>3. WalkerOrder'
      BY <2>7, SMTT(30) DEF InsertAdvance, WalkInv, WalkerPlace, WalkerOrder, Reached, Published
    <3> QED
      BY <2>7, <3>1, <3>2, <3>3, CleanerFrame, SMTT(30) DEF WalkInv, Quiet
  <2>8. CASE InsertLink(t)
    <3>1. WalkerPlace'
      <4> HIDE DEF IInv, TypeOK
      <4>1. Published \subseteq Published'
        BY <2>8, QuietFacts, LinkFacts DEF Quiet
      <4>2. /\ UNCHANGED <<prev, node>>
            /\ \A u \in Txns : pc'[u] \in {"visit", "help", "advance", "link"} => pc'[u] = pc[u]
        BY <2>8 DEF IInv, TypeOK, InsertLink
      <4> QED
        BY <4>1, <4>2 DEF IInv, WalkInv, WalkerPlace, Reached
    <3>2. WalkerHelp'
      <4>1. CASE next[prev[t]] = node[t]
        <5> HIDE DEF IInv
        <5>1. /\ WalkerHelp /\ WalkerPlace /\ UNCHANGED <<original, node>>
              /\ next \in [Nodes -> Nodes \union {Nil}] /\ pc \in [Txns -> WriterPCs]
              /\ \E label \in {"start", "notify"} : pc' = [pc EXCEPT ![t] = label]
          BY <2>8 DEF IInv, WalkInv, InsertLink
        <5>2. ASSUME NEW u \in Txns, pc'[u] = "help"
              PROVE  node[u] # Tail /\ next'[node[u]] = Nil /\ original[node[u]] # Nil
          <6>1. /\ pc[u] = "help" /\ node[u] \in Published
                /\ node[u] # Tail /\ next[node[u]] = Nil /\ original[node[u]] # Nil
            BY <5>1, <5>2 DEF WalkerHelp, WalkerPlace, Reached
          <6>2. next[prev[t]] # Nil
            BY <2>8, <4>1, LinkFacts, PublishedNodes
          <6>3. node[u] # prev[t] /\ node[u] \in Nodes
            BY <6>1, <6>2, PublishedNodes, Zenon
          <6> QED
            BY <2>8, <4>1, <5>1, <6>1, <6>3, LinkFacts
        <5> QED
          BY <5>1, <5>2 DEF WalkerHelp
      <4>2. CASE next[prev[t]] # node[t]
        BY <2>8, <4>2 DEF InsertLink, WalkInv, WalkerHelp
      <4> QED
        BY <4>1, <4>2
    <3>3. WalkerOrder'
      BY <2>8, SMTT(30) DEF InsertLink, WalkInv, WalkerPlace, WalkerOrder, Reached, Published
    <3>4. CleanerPlace'
      BY <2>8 DEF InsertLink, WalkInv, CleanerPlace, WatermarkInv, Reached, Published
    <3>5. CleanerHolds'
      <4>1. CASE next[prev[t]] = node[t]
        <5> HIDE DEF IInv
        <5>1. /\ CleanerHolds /\ CleanerPlace /\ UNCHANGED <<original, cleaner>>
              /\ next \in [Nodes -> Nodes \union {Nil}]
          BY <2>8 DEF IInv, WalkInv, InsertLink
        <5>2. ASSUME cpc = "original"
              PROVE  next'[cnode] = Nil /\ cnext \in Reached'
          <6>1. /\ cnode \in Published /\ cnext \in Reached
                /\ next[cnode] = Nil /\ original[cnode] = Nil
            BY <5>1, <5>2 DEF CleanerHolds, CleanerPlace
          <6>2. next[prev[t]] # Nil
            BY <2>8, <4>1, LinkFacts, PublishedNodes
          <6>3. cnode # prev[t] /\ cnode \in Nodes
            BY <6>1, <6>2, PublishedNodes
          <6> QED
            BY <2>8, <4>1, <5>1, <6>1, <6>3, LinkFacts DEF Reached
        <5> QED
          BY <5>1, <5>2 DEF CleanerHolds
      <4>2. CASE next[prev[t]] # node[t]
        BY <2>8, <4>2 DEF InsertLink, WalkInv, CleanerHolds, Reached, Published
      <4> QED
        BY <4>1, <4>2
    <3> QED
      BY <3>1, <3>2, <3>3, <3>4, <3>5 DEF WalkInv
  <2>9. CASE InsertNotify(t)
    <3> HIDE DEF IInv
    <3>1. UNCHANGED <<prev, node>> /\ \E label \in {"done"} : pc' = [pc EXCEPT ![t] = label]
      BY <2>9 DEF InsertNotify
    <3> QED
      BY <2>9, <3>1, OffTheWalk, Zenon DEF Quiet
  <2> QED
    BY <1>1, <2>1, <2>2, <2>3, <2>4, <2>5, <2>6, <2>7, <2>8, <2>9 DEF Commit
<1>2. CASE CleanerReceive
  <2>1. WalkerPlace' /\ WalkerHelp' /\ WalkerOrder'
    BY <1>2, WalkerFrame, PublishedNodes DEF CleanerReceive
  <2>2. CleanerPlace'
    BY <1>2 DEF CleanerReceive, WalkInv, CleanerPlace, Reached, Published
  <2>3. CleanerHolds'
    BY <1>2 DEF CleanerReceive, WalkInv, CleanerHolds, Reached, Published
  <2> QED
    BY <2>1, <2>2, <2>3 DEF WalkInv
<1>3. CASE CleanerFirst
  <2>1. WalkerPlace' /\ WalkerHelp' /\ WalkerOrder'
    BY <1>3, WalkerFrame, PublishedNodes DEF CleanerFirst
  <2>2. CleanerPlace'
    BY <1>3 DEF CleanerFirst, WalkInv, CleanerPlace, PointerInv, NextForward, Reached, Published
  <2>3. CleanerHolds'
    BY <1>3 DEF CleanerFirst, WalkInv, CleanerHolds, Reached, Published
  <2> QED
    BY <2>1, <2>2, <2>3 DEF WalkInv
<1>4. CASE CleanerEval
  <2>1. WalkerPlace' /\ WalkerHelp' /\ WalkerOrder'
    BY <1>4, WalkerFrame, PublishedNodes DEF CleanerEval
  <2>2. CleanerPlace'
    BY <1>4 DEF CleanerEval, WalkInv, CleanerPlace, Reached, Published
  <2>3. CleanerHolds'
    BY <1>4 DEF CleanerEval, WalkInv, CleanerHolds, Reached, Published
  <2> QED
    BY <2>1, <2>2, <2>3 DEF WalkInv
<1>5. CASE CleanerStore
  <2>1. WalkerPlace' /\ WalkerHelp' /\ WalkerOrder'
    BY <1>5, WalkerFrame, PublishedNodes DEF CleanerStore
  <2>2. CleanerPlace'
    BY <1>5 DEF CleanerStore, WalkInv, CleanerPlace, WatermarkInv, Reached, Published
  <2>3. CleanerHolds'
    BY <1>5 DEF CleanerStore, WalkInv, CleanerHolds, Reached, Published
  <2> QED
    BY <2>1, <2>2, <2>3 DEF WalkInv
<1>6. CASE CleanerMark
  <2>1. WalkerPlace' /\ WalkerHelp' /\ WalkerOrder'
    BY <1>6, WalkerFrame, PublishedNodes DEF CleanerMark
  <2>2. CleanerPlace'
    BY <1>6 DEF CleanerMark, WalkInv, CleanerPlace, Reached, Published
  <2>3. CleanerHolds'
    BY <1>6 DEF CleanerMark, WalkInv, CleanerPlace, PointerInv, NextForward, OriginalForward, CleanerHolds, Reached, Published
  <2> QED
    BY <2>1, <2>2, <2>3 DEF WalkInv
<1>7. CASE CleanerOriginal
  <2>1. WalkerPlace' /\ WalkerHelp' /\ WalkerOrder'
    <3> HIDE DEF IInv, TypeOK
    <3>1. UNCHANGED <<next, pc, prev, node>> /\ original' = [original EXCEPT ![cnode] = cnext]
      BY <1>7 DEF CleanerOriginal
    <3>2. \A n \in Published : original[n] # Nil => n # cnode /\ original'[n] = original[n]
      BY <1>7, <3>1, PublishedNodes DEF IInv, TypeOK, CleanerOriginal, WalkInv, CleanerHolds
    <3> QED
      BY <3>1, <3>2, WalkerFrame DEF IInv
  <2>2. CleanerPlace'
    BY <1>7 DEF CleanerOriginal, WalkInv, CleanerPlace, Reached, Published
  <2>3. CleanerHolds'
    BY <1>7 DEF CleanerOriginal, WalkInv, CleanerHolds, Reached, Published
  <2> QED
    BY <2>1, <2>2, <2>3 DEF WalkInv
<1>8. CASE CleanerAdvance
  <2>1. WalkerPlace' /\ WalkerHelp' /\ WalkerOrder'
    BY <1>8, WalkerFrame, PublishedNodes DEF CleanerAdvance
  <2>2. CleanerPlace'
    BY <1>8 DEF CleanerAdvance, WalkInv, CleanerPlace, PointerInv, NextForward, OriginalForward, Reached, Published
  <2>3. CleanerHolds'
    BY <1>8 DEF CleanerAdvance, WalkInv, CleanerHolds, Reached, Published
  <2> QED
    BY <2>1, <2>2, <2>3 DEF WalkInv
<1>9. CASE CleanerExit
  <2>1. WalkerPlace' /\ WalkerHelp' /\ WalkerOrder'
    BY <1>9, WalkerFrame, PublishedNodes DEF CleanerExit
  <2>2. CleanerPlace'
    BY <1>9 DEF CleanerExit, WalkInv, CleanerPlace, Reached, Published
  <2>3. CleanerHolds'
    BY <1>9 DEF CleanerExit, WalkInv, CleanerHolds, Reached, Published
  <2> QED
    BY <2>1, <2>2, <2>3 DEF WalkInv
<1>10. CASE Stop
  BY <1>10 DEF Stop, WalkInv, WalkerPlace, WalkerHelp, WalkerOrder, CleanerPlace, CleanerHolds, Reached, Published
<1>11. CASE UNCHANGED vars
  BY <1>11 DEF vars, WalkInv, WalkerPlace, WalkerHelp, WalkerOrder, CleanerPlace, CleanerHolds, Reached, Published
<1> QED
  BY <1>1, <1>2, <1>3, <1>4, <1>5, <1>6, <1>7, <1>8, <1>9, <1>10, <1>11 DEF Next, Cleaner

(***************************************************************************)
(* IInv holds in every reachable state.                                     *)
(***************************************************************************)
LEMMA InitIInv == Init => IInv
<1> SUFFICES ASSUME Init PROVE IInv
  OBVIOUS
<1> USE MaxTxAssumption DEF Init, Txns, Nodes, Head, Tail, Nil, Published
<1>1. TypeOK
  <2>1. next \in [Nodes -> Nodes \union {Nil}]
    OBVIOUS
  <2>2. original \in [Nodes -> Nodes \union {Nil}] /\ linked \subseteq Nodes
    OBVIOUS
  <2>3. pc \in [Txns -> WriterPCs] /\ cpc \in CleanerPCs
    BY DEF WriterPCs, CleanerPCs
  <2>4. /\ prev \in [Txns -> Nodes] /\ node \in [Txns -> Nodes]
        /\ cnode \in Nodes /\ cnext \in Nodes \union {Nil}
        /\ tx \in 0..MaxTx /\ highWatermark \in 0..MaxTx
    OBVIOUS
  <2>5. drain \in BOOLEAN /\ stopped \in BOOLEAN
    BY Zenon
  <2> QED
    BY <2>1, <2>2, <2>3, <2>4, <2>5 DEF TypeOK
<1>2. WatermarkInv
  BY DEF WatermarkInv, WatermarkOnlyCompleted
<1>3. PointerInv
  BY DEF PointerInv, NextForward, OriginalForward, UnpublishedBlank, NeverStuck,
         MarkedBelowWatermark, Reached
<1>4. WalkInv
  BY DEF WalkInv, WalkerPlace, WalkerHelp, WalkerOrder, CleanerPlace, CleanerHolds
<1>5. ChainInv
  <2>1. Onward(Head) = Tail /\ Head < Tail
    BY DEF Onward, Successor
  <2>2. SortedChain
    BY <2>1 DEF SortedChain
  <2>3. ChainMembers
    BY DEF ChainMembers
  <2> QED
    BY <2>2, <2>3 DEF ChainInv
<1> QED
  BY <1>1, <1>2, <1>3, <1>4, <1>5 DEF IInv

\* The inductive invariant holds in every reachable state, whatever MaxTx is.
THEOREM Invariance == Spec => []IInv
<1>1. IInv /\ [Next]_vars => IInv'
  BY TypeStep, WatermarkStep, PointerStep, WalkStep, ChainStep DEF IInv
<1> QED
  BY InitIInv, <1>1, PTL DEF Spec

\* Every variable keeps its type in every reachable state.
THEOREM TypeCorrect == Spec => []TypeOK
<1>1. IInv => TypeOK
  BY DEF IInv
<1> QED
  BY <1>1, Invariance, PTL

\* Every transaction at or below the watermark has called its commit function
\* (DB.beginRead), for any number of concurrent writers.
THEOREM WatermarkSafety == Spec => []WatermarkOnlyCompleted
<1>1. IInv => WatermarkOnlyCompleted
  BY DEF IInv, WatermarkInv
<1> QED
  BY <1>1, Invariance, PTL

\* The lock-free list is always a sorted chain from the head to the tail.
THEOREM ChainSafety == Spec => []SortedChain
<1>1. IInv => SortedChain
  BY DEF IInv, ChainInv
<1> QED
  BY <1>1, Invariance, PTL

\* No transaction is lost from the list before the watermark has passed it.
THEOREM NothingLost == Spec => []NoTransactionLost
<1>1. IInv => NoTransactionLost
  <2> SUFFICES ASSUME IInv, NEW t \in Published, t > highWatermark
               PROVE  t \in linked /\ ~Marked(t)
    BY DEF NoTransactionLost
  <2>1. next[t] # Nil
    BY PublishedNodes, MaxTxAssumption
    DEF IInv, PointerInv, MarkedBelowWatermark, TypeOK, Txns
  <2> QED
    BY <2>1 DEF IInv, ChainInv, ChainMembers, Marked
<1> QED
  BY <1>1, Invariance, PTL

(***************************************************************************)
(* The wakeup.  A commit that is under way ends with a token in the channel,*)
(* which stays there until the cleaner is back from its walk.  So while     *)
(* there is no token and no commit, nobody has touched the list since the   *)
(* walk began, and the cleaner stands on a node that is still linked.       *)
(***************************************************************************)
Quiescent == ~drain /\ \A t \in Completed : pc[t] = "done"

Walking == {"eval", "store", "mark", "original", "advance"}

WalkLinked == Quiescent /\ cpc \in Walking => cnode \in linked

\* A step of a commit leaves a commit under way or a token.
LEMMA CommitBusy ==
  ASSUME TypeOK, NEW t \in Txns, Commit(t)
  PROVE  ~Quiescent'
<1>1. \/ pc'[t] \in WriterPCs \ {"idle", "running", "done"}
      \/ drain'
  BY DEF TypeOK, Commit, CommitLoad, CommitStore, InsertStart, InsertVisit, InsertHelp,
         InsertAdvance, InsertLink, InsertNotify, Goto, WriterPCs
<1> QED
  BY <1>1 DEF Quiescent, Completed, WriterPCs

\* The next transaction that the watermark waits for is linked once it is published.
LEMMA WaitedForLinked ==
  ASSUME IInv, highWatermark + 1 \in Published
  PROVE  highWatermark + 1 \in linked
<1>1. highWatermark \in Nat /\ ~(highWatermark + 1 <= highWatermark)
  BY MaxTxAssumption DEF IInv, TypeOK
<1>2. next[highWatermark + 1] # Nil
  BY <1>1 DEF IInv, PointerInv, MarkedBelowWatermark
<1> QED
  BY <1>2 DEF IInv, ChainInv, ChainMembers

\* The cleaner's walk goes from a linked node to the next one, and not past the
\* transaction the watermark waits for.
LEMMA StepOnward ==
  ASSUME IInv, NEW n \in linked, n # Tail, n <= highWatermark, cpc # "original", Readable(n)
  PROVE  /\ Successor(n) \in linked
         /\ highWatermark + 1 \in Published => Successor(n) <= highWatermark + 1
<1>1. Onward(n) = Successor(n)
  BY DEF Onward
<1>2. n \in Nat /\ Successor(n) \in linked /\ Successor(n) \in Nat /\ highWatermark \in Nat
  <2>1. linked \subseteq Nat /\ highWatermark \in Nat
    BY MaxTxAssumption DEF IInv, TypeOK, Nodes
  <2>2. Successor(n) \in linked
    BY <1>1 DEF IInv, ChainInv, SortedChain
  <2> QED
    BY <2>1, <2>2, Zenon
<1>3. highWatermark + 1 \in Published =>
        ~(n < highWatermark + 1 /\ highWatermark + 1 < Successor(n))
  BY <1>1, WaitedForLinked DEF IInv, ChainInv, SortedChain
<1> QED
  BY <1>2, <1>3

\* Every step keeps the wakeup pending.
LEMMA WakeupStep ==
  IInv /\ WalkLinked /\ WakeupPending /\ [Next]_vars => WalkLinked' /\ WakeupPending'
<1> SUFFICES ASSUME IInv, WalkLinked, WakeupPending, [Next]_vars
             PROVE  WalkLinked' /\ WakeupPending'
  OBVIOUS
<1> DEFINE OnItsWay == \/ cpc \in {"exited", "first"}
                       \/ cpc \in Walking /\ cnode <= highWatermark + 1
<1>1. WakeupPending <=> (highWatermark + 1 \in Published /\ Quiescent => OnItsWay)
  BY DEF WakeupPending, Quiescent, Walking
<1>2. WakeupPending' <=> ((highWatermark + 1 \in Published /\ Quiescent) => OnItsWay)'
  BY DEF WakeupPending, Quiescent, Walking
<1>3. TypeOK /\ highWatermark \in Nat
  BY MaxTxAssumption DEF IInv, TypeOK
<1>4. ASSUME NEW t \in Txns, Commit(t)
      PROVE  WalkLinked' /\ WakeupPending'
  BY <1>2, <1>3, <1>4, CommitBusy DEF WalkLinked
<1>5. ASSUME NEW t \in Txns, Begin(t)
      PROVE  WalkLinked' /\ WakeupPending'
  <2>1. Published' = Published /\ Completed' = Completed
    BY <1>3, <1>5 DEF Begin, Goto, TypeOK, Published, Completed
  <2>2. Quiescent' => Quiescent
    BY <1>3, <1>5, <2>1 DEF Begin, Goto, TypeOK, Quiescent
  <2> QED
    BY <1>1, <1>2, <1>5, <2>1, <2>2 DEF Begin, list, cleaner, WalkLinked
<1>6. CASE Cleaner
  <2>1. UNCHANGED <<tx, pc, linked>> /\ Published' = Published /\ Completed' = Completed
    BY <1>6 DEF Cleaner, CleanerReceive, CleanerFirst, CleanerEval, CleanerStore, CleanerMark,
                CleanerOriginal, CleanerAdvance, CleanerExit, list, writer, Published, Completed
  <2>2. CASE CleanerReceive \/ CleanerExit
    BY <1>2, <2>1, <2>2 DEF CleanerReceive, CleanerExit, WalkLinked, Walking
  <2>3. Quiescent' = Quiescent \/ CleanerReceive
    BY <1>6, <2>1 DEF Cleaner, CleanerReceive, CleanerFirst, CleanerEval, CleanerStore,
                CleanerMark, CleanerOriginal, CleanerAdvance, CleanerExit, Quiescent
  <2>4. CASE CleanerFirst
    <3>1. Head \in linked /\ Head # Tail /\ Head <= highWatermark /\ cpc # "original"
      BY <1>3, <2>4, PublishedNodes DEF IInv, ChainInv, SortedChain, CleanerFirst, Head
    <3>2. Readable(Head) /\ Successor(Head) = next[Head]
      BY DEF IInv, PointerInv, Readable, Successor
    <3>3. UNCHANGED highWatermark /\ cnode' = Successor(Head) /\ cpc' = "eval"
      BY <2>4, <3>2 DEF CleanerFirst
    <3> QED
      BY <1>2, <2>1, <3>1, <3>2, <3>3, StepOnward DEF WalkLinked, Walking
  <2>5. CASE CleanerEval
    <3>1. /\ UNCHANGED <<highWatermark, cnode>> /\ cpc = "eval"
          /\ cpc' \in {"store", "mark", "recv"}
          /\ cpc' = "recv" => cnode = Tail \/ ~(cnode <= highWatermark + 1)
      BY <1>3, <2>5, MaxTxAssumption DEF CleanerEval, TypeOK, Nodes
    <3>2. highWatermark + 1 \in Published => ~(Tail <= highWatermark + 1)
      BY <1>3, PublishedNodes, MaxTxAssumption DEF Txns, Tail
    <3>3. Quiescent' = Quiescent
      BY <2>3, <2>5, <3>1 DEF CleanerReceive
    <3> QED
      BY <1>1, <1>2, <2>1, <3>1, <3>2, <3>3 DEF WalkLinked, Walking
  <2>6. CASE CleanerStore
    <3>1. highWatermark' = cnode /\ cnode' = cnode /\ cpc = "store" /\ cpc' = "mark"
      BY <2>6 DEF CleanerStore
    <3>2. cnode <= cnode + 1
      BY <1>3, MaxTxAssumption DEF TypeOK, Nodes
    <3>3. Quiescent' = Quiescent
      BY <2>3, <3>1 DEF CleanerReceive
    <3> QED
      BY <1>2, <2>1, <3>1, <3>2, <3>3 DEF WalkLinked, Walking
  <2>7. CASE CleanerMark \/ CleanerOriginal
    <3>1. UNCHANGED <<highWatermark, cnode>> /\ {cpc, cpc'} \subseteq Walking
      BY <2>7 DEF CleanerMark, CleanerOriginal, Walking
    <3>2. Quiescent' = Quiescent
      BY <2>3, <3>1 DEF CleanerReceive, Walking
    <3> QED
      BY <1>1, <1>2, <2>1, <3>1, <3>2 DEF WalkLinked, Walking
  <2>8. CASE CleanerAdvance
    <3>1. /\ UNCHANGED highWatermark /\ cpc = "advance" /\ cpc' = "eval"
          /\ Readable(cnode) /\ cnode' = Successor(cnode)
      BY <2>8 DEF CleanerAdvance
    <3>2. cnode # Tail /\ cnode <= highWatermark
      BY <3>1, PublishedNodes DEF IInv, WalkInv, CleanerPlace
    <3>3. Quiescent' = Quiescent
      BY <2>3, <3>1 DEF CleanerReceive
    <3>4. Quiescent => cnode \in linked
      BY <3>1 DEF WalkLinked, Walking
    <3> QED
      BY <1>2, <2>1, <3>1, <3>2, <3>3, <3>4, StepOnward DEF WalkLinked, Walking
  <2> QED
    BY <1>6, <2>2, <2>4, <2>5, <2>6, <2>7, <2>8 DEF Cleaner
<1>7. CASE Stop \/ UNCHANGED vars
  <2>1. UNCHANGED <<highWatermark, linked, drain, pc, cpc, cnode>>
    BY <1>7 DEF Stop, vars, list, writer, cleaner
  <2>2. Published' = Published /\ Completed' = Completed
    BY <2>1 DEF Published, Completed
  <2> QED
    BY <1>1, <1>2, <2>1, <2>2 DEF WalkLinked, Quiescent
<1> QED
  BY <1>4, <1>5, <1>6, <1>7 DEF Next

\* The wakeup of the cleaner is never lost (the non-blocking send of Insert and the
\* receive of cleaner), for any number of concurrent commits.
THEOREM WakeupKept == Spec => []WakeupPending
<1>1. Init => WalkLinked /\ WakeupPending
  BY DEF Init, WalkLinked, Walking, WakeupPending, Published
<1> QED
  BY <1>1, WakeupStep, Invariance, PTL DEF Spec

\* The pool implements the abstract watermark: every step of a writer or of the
\* cleaner completes one transaction, moves the watermark to the next completed
\* transaction, or changes neither.
THEOREM Refinement == Spec => ImplementsWatermark
<1>1. Init => Abstract!Init
  BY DEF Init, Abstract!Init, Completed
<1>2. IInv /\ [Next]_vars => [Abstract!Next]_(Abstract!vars)
  <2> SUFFICES ASSUME IInv, [Next]_vars
               PROVE  [Abstract!Next]_(Abstract!vars)
    OBVIOUS
  <2> USE DEF Abstract!Next, Abstract!vars, Abstract!Complete, Abstract!Advance
  <2>1. ASSUME NEW t \in Txns, CommitLoad(t)
        PROVE  Abstract!Complete(t)
    BY <2>1 DEF IInv, TypeOK, CommitLoad, Goto, Completed
  <2>2. ASSUME NEW t \in Txns, CommitStore(t)
        PROVE  Abstract!Advance
    BY <2>2 DEF IInv, TypeOK, WatermarkInv, CommitStore, Goto, Completed
  <2>3. CASE CleanerStore
    BY <2>3 DEF IInv, TypeOK, WatermarkInv, WalkInv, CleanerPlace, CleanerStore, writer, Completed, Published
  <2>4. ASSUME NEW t \in Txns,
               \/ Begin(t) \/ InsertStart(t) \/ InsertVisit(t) \/ InsertHelp(t)
               \/ InsertAdvance(t) \/ InsertLink(t) \/ InsertNotify(t)
        PROVE  Completed' = Completed /\ highWatermark' = highWatermark
    BY <2>4 DEF IInv, TypeOK, Begin, InsertStart, InsertVisit, InsertHelp, InsertAdvance,
                InsertLink, InsertNotify, Goto, Completed
  <2>5. CASE Cleaner /\ ~CleanerStore
    BY <2>5 DEF Cleaner, CleanerReceive, CleanerFirst, CleanerEval, CleanerMark,
                CleanerOriginal, CleanerAdvance, CleanerExit, writer, Completed
  <2>6. CASE Stop \/ UNCHANGED vars
    BY <2>6 DEF Stop, vars, writer, Completed
  <2> QED
    BY <2>1, <2>2, <2>3, <2>4, <2>5, <2>6 DEF Next, Commit
<1> QED
  BY <1>1, <1>2, Invariance, PTL DEF Spec, ImplementsWatermark, Abstract!Spec
=============================================================================
