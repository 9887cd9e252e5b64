----------------------------- MODULE TableProofs -----------------------------
(***************************************************************************)
(* The parts of Table's invariant about readers are preserved, and what     *)
(* follows from the invariant.  ReaderInv, GoneInv: what a reader has been  *)
(* passed it is not passed again, and the files it lists are of blocks that *)
(* are gone.  CompleteInv: what its transaction covers has not escaped it.  *)
(***************************************************************************)
EXTENDS TableBlocksProofs, WellFoundedInduction

\* A reader's step leaves the other readers alone.
SameReader(q) ==
    /\ rpc'[q] = rpc[q] /\ rtx'[q] = rtx[q]
    /\ pinned'[q] = pinned[q] /\ unread'[q] = unread[q]
    /\ lastBlock'[q] = lastBlock[q] /\ files'[q] = files[q]
    /\ seen'[q] = seen[q] /\ hidden'[q] = hidden[q]

\* A step of one reader is no step of the others.
LEMMA OtherReaders ==
  ASSUME ReaderTypes, NEW r \in Readers, Read(r), NEW q \in Readers, q # r
  PROVE  SameReader(q)
<1> USE DEF ReaderTypes, SameReader
<1>1. CASE View(r)
  BY <1>1, Zenon DEF View, ReaderGoes
<1>2. CASE memoryBlocks(r)
  BY <1>2, Zenon DEF memoryBlocks, ReaderGoes
<1>3. ASSUME NEW b \in Blocks, ScanBlock(r, b)
      PROVE  SameReader(q)
  BY <1>3, PassedTypes DEF ScanBlock
<1>4. CASE ScanSource(r)
  BY <1>4, Zenon DEF ScanSource, ReaderGoes
<1>5. ASSUME NEW b \in Blocks, ProcessFile(r, b)
      PROVE  SameReader(q)
  <2>1. CASE Unpin(r, "failed") /\ UNCHANGED <<seen, rtx, unread, hidden>>
    BY <2>1, Zenon DEF Unpin, ReaderGoes
  <2>2. CASE /\ files' = [files EXCEPT ![r] = @ \ {b}]
             /\ Passed(r, bucket[b].rows)
             /\ UNCHANGED <<rpc, pinned, lastBlock, rtx, unread, hidden>>
    BY <2>2, PassedTypes
  <2> QED
    BY <1>5, <2>1, <2>2, Zenon DEF ProcessFile
<1>6. CASE ReadReturns(r)
  BY <1>6, Zenon DEF ReadReturns, Unpin, ReaderGoes
<1> QED
  BY <1>1, <1>2, <1>3, <1>4, <1>5, <1>6, Zenon DEF Read

\* Whoever takes a step, the readers but one do not notice.
LEMMA ReadersApart ==
  ASSUME IInv, Next, NEW q \in Readers
  PROVE  SameReader(q) \/ Read(q)
<1> USE DEF IInv
<1>1. ASSUME UNCHANGED readerVars
      PROVE  SameReader(q)
  BY <1>1, Zenon DEF readerVars, SameReader
<1>2. ASSUME NEW r \in Readers, Read(r)
      PROVE  SameReader(q) \/ Read(q)
  BY <1>2, OtherReaders, Zenon
<1>3. CASE Rotate
  BY <1>1, <1>3, Zenon DEF Rotate
<1> QED
  BY <1>1, <1>2, <1>3, WriteFrame, WriteBlockFrame, CloseFrame, Zenon DEF Next, Callers

\* A reader is passed what is in a block, or in a file, once.
LEMMA ReaderInvStep ==
  ASSUME Ordered, IInv, Next
  PROVE  ReaderInv'
<1> USE DEF IInv
<1> SUFFICES ASSUME NEW r \in Readers
             PROVE  PassedOnce(r)'
  BY Zenon DEF ReaderInv
<1>0. PassedOnce(r)
  BY Zenon DEF ReaderInv
<1>1. CASE SameReader(r)
  BY <1>0, <1>1, Settled, BlocksStay DEF PassedOnce, SameReader
<1>2. CASE Read(r)
  <2>0. UNCHANGED <<wpc, wblock, blocks, bucket>>
    BY <1>2, ReadFrame, Zenon DEF writerVars, tableVars, storeVars
  <2>1. CASE View(r)
    BY <1>0, <2>1, Zenon DEF View, ReaderGoes, PassedOnce, ReaderTypes
  <2>2. CASE memoryBlocks(r)
    <3> DEFINE bs   == {active} \union pendingBlocks
               last == LastReadBlockTimestamp(bs)
    <3>1. /\ bs \subseteq DOMAIN blocks /\ last \in Nat
          /\ \A b \in bs : last <= blocks[b].time
          /\ \E b \in bs : last = blocks[b].time
      BY Pins, Zenon
    <3>2. last # 0
      BY <3>1 DEF TimeInv
    <3>3. pinned'[r] = bs /\ lastBlock'[r] = last /\ rpc'[r] = "scan" /\ rpc[r] = "pin" /\ seen' = seen
      BY <2>2, Zenon DEF memoryBlocks, ReaderGoes, ReaderTypes
    <3>4. \A b \in bs : blocks[b].time >= last
      BY <3>1, BlockFacts, Zenon
    <3> HIDE DEF bs, last
    <3> QED
      BY <1>0, <2>0, <3>1, <3>2, <3>3, <3>4, Zenon DEF PassedOnce
  <2>3. ASSUME NEW b \in Blocks, ScanBlock(r, b)
        PROVE  PassedOnce(r)'
    <3> DEFINE ws == {w \in blocks[b].parts : wtx[w] <= rtx[r]}
    <3>1. /\ rpc[r] = "scan" /\ b \in unread[r] /\ Passed(r, ws)
          /\ unread'[r] = unread[r] \ {b} /\ UNCHANGED <<rpc, pinned, lastBlock, files>>
      BY <2>3, Zenon DEF ScanBlock, ReaderTypes
    <3>2. b \in pinned[r] /\ b \in DOMAIN blocks
      BY <1>0, <3>1, Zenon DEF PassedOnce, ReaderTypes
    <3>3. \A w \in ws : Lives(w, b)
      BY <3>2, Zenon DEF HomeInv
    <3>4. \A w \in ws : seen[r][w] = 0
      BY <1>0, <3>1, <3>3, Zenon DEF PassedOnce, Lives
    <3> HIDE DEF ws
    <3>5. \A w \in Writes : seen'[r][w] = IF w \in ws THEN seen[r][w] + 1 ELSE seen[r][w]
      BY <3>1, PassedTypes, Zenon
    <3> QED
      BY <1>0, <2>0, <3>1, <3>2, <3>3, <3>4, <3>5 DEF PassedOnce, Lives
  <2>4. CASE ScanSource(r)
    BY <1>0, <2>0, <2>4, Zenon DEF ScanSource, ReaderGoes, ReaderTypes, PassedOnce, Ignored
  <2>5. ASSUME NEW b \in Blocks, ProcessFile(r, b)
        PROVE  PassedOnce(r)'
    <3>1. CASE rpc'[r] = "failed" /\ UNCHANGED seen
      BY <1>0, <3>1, Zenon DEF PassedOnce
    <3>2. CASE /\ rpc[r] = "files" /\ b \in files[r] /\ b \in DOMAIN bucket
               /\ files'[r] = files[r] \ {b}
               /\ Passed(r, bucket[b].rows)
               /\ UNCHANGED rpc
      <4>1. \A w \in bucket[b].rows : Lives(w, b)
        BY <3>2, Zenon DEF HomeInv
      <4>2. \A w \in bucket[b].rows : seen[r][w] = 0
        BY <1>0, <3>2, <4>1, Zenon DEF PassedOnce, Lives
      <4>3. \A w \in Writes : seen'[r][w] = IF w \in bucket[b].rows THEN seen[r][w] + 1 ELSE seen[r][w]
        BY <3>2, PassedTypes, Zenon
      <4> QED
        BY <1>0, <2>0, <3>2, <4>1, <4>2, <4>3 DEF PassedOnce, Lives
    <3> QED
      BY <2>5, <3>1, <3>2, Zenon DEF ProcessFile, Unpin, ReaderGoes, ReaderTypes
  <2>6. CASE ReadReturns(r)
    BY <1>0, <2>6, Zenon DEF ReadReturns, Unpin, ReaderGoes, PassedOnce, ReaderTypes
  <2> QED
    BY <1>2, <2>1, <2>2, <2>3, <2>4, <2>5, <2>6, Zenon DEF Read
<1> QED
  BY <1>1, <1>2, ReadersApart, Zenon

\* A block that is gone stays gone, and so does its file.
LEMMA GoneStays ==
  ASSUME IInv, Next
  PROVE  \A b \in DOMAIN blocks : Gone(b) =>
             /\ Gone(b)'
             /\ \/ WrittenTwice(b)'
                \/ /\ b \in DOMAIN bucket <=> b \in DOMAIN bucket'
                   /\ b \in DOMAIN bucket => bucket'[b] = bucket[b]
<1> USE DEF IInv
<1> SUFFICES ASSUME NEW b \in DOMAIN blocks, Gone(b)
             PROVE  /\ Gone(b)'
                    /\ \/ WrittenTwice(b)'
                       \/ /\ b \in DOMAIN bucket <=> b \in DOMAIN bucket'
                          /\ b \in DOMAIN bucket => bucket'[b] = bucket[b]
  BY Zenon
<1>0. b \in Blocks
  BY BlockFacts, Zenon
<1>1. CASE WrittenTwice(b)
  BY <1>0, <1>1, StoredBefore, Zenon DEF Gone
<1>2. CASE Stage(b, "rotate") \in {"wait", "done"} /\ ~WrittenTwice(b)
  <2>1. ASSUME UNCHANGED bucket, Stage(b, "rotate")' = Stage(b, "rotate")
        PROVE  /\ Gone(b)'
               /\ b \in DOMAIN bucket <=> b \in DOMAIN bucket'
               /\ b \in DOMAIN bucket => bucket'[b] = bucket[b]
    BY <1>2, <2>1, Zenon DEF Gone
  <2>2. ASSUME NEW c, Rotates(c)
        PROVE  Stage(b, "rotate")' = Stage(b, "rotate")
    <3>1. b # c
      BY <1>2, <2>2, Zenon DEF Rotates, SealInv
    <3> QED
      BY <1>0, <2>2, <3>1, Zenon DEF Rotates, JobMoves, Stage, Callers
  <2>3. CASE \E w \in Writes : Write(w)
    <3>1. UNCHANGED bucket
      BY <2>3, WriteFrame, Zenon
    <3>2. UNCHANGED jobs \/ \E c : Rotates(c)
      BY <2>3, Rotation, Zenon
      DEF Write, appender, RotateFull, BeginWrite, InsertRecord, FinishWrite, storeVars, JobInv
    <3> QED
      BY <2>1, <2>2, <3>1, <3>2, Zenon DEF Stage
  <2>4. ASSUME NEW c \in Blocks, NEW by \in Callers, writeBlock(c, by)
        PROVE  /\ Gone(b)'
               /\ b \in DOMAIN bucket <=> b \in DOMAIN bucket'
               /\ b \in DOMAIN bucket => bucket'[b] = bucket[b]
    <3>1. CASE c # b
      <4>1. Stage(b, "rotate")' = Stage(b, "rotate")
        BY <1>0, <2>4, <3>1, WriteBlockMoves, Zenon DEF JobMoves, Stage, Callers
      <4>2. (b \in DOMAIN bucket <=> b \in DOMAIN bucket') /\ (b \in DOMAIN bucket => bucket'[b] = bucket[b])
        BY <2>4, <3>1, Zenon DEF writeBlock, SyncBlock, Serialize, Upload, UploadFails, SerializeFails,
                          DeleteFile, dropPendingBlock, Dropped
      <4> QED
        BY <1>2, <4>1, <4>2, Zenon DEF Gone
    <3>2. CASE c = b
      <4>1. by = "rotate"
        BY <1>2, <2>4, <3>2, WriteBlockMoves, Zenon DEF WrittenTwice, Callers
      <4>2. Dropped(b, "rotate")
        BY <1>2, <2>4, <3>2, <4>1, Zenon
           DEF writeBlock, SyncBlock, Serialize, Upload, UploadFails,
                                      SerializeFails, DeleteFile, dropPendingBlock
      <4>3. Stage(b, "rotate")' = "done" /\ UNCHANGED bucket
        BY <1>0, <4>2, JobSteps, Zenon DEF Dropped, JobMoves, Stage, Callers
      <4> QED
        BY <4>3, Zenon DEF Gone
    <3> QED
      BY <3>1, <3>2, Zenon
  <2>5. CASE Rotate
    BY <2>1, <2>2, <2>5, Rotation, Zenon DEF Rotate, JobInv, Stage
  <2>6. CASE Close
    <3>1. Stage(b, "rotate")' = Stage(b, "rotate")
      BY <1>0, <2>6, CloseStep, Zenon
      DEF Close, close, CloseWaited, CloseWrites, dropStorage, JobMoves, Stage, Callers
    <3> QED
      BY <2>1, <2>6, <3>1, CloseFrame, Zenon
  <2>7. CASE \E r \in Readers : Read(r)
    BY <2>1, <2>7, ReadFrame, Zenon DEF storeVars, Stage
  <2> QED
    BY <2>3, <2>4, <2>5, <2>6, <2>7, Zenon DEF Next, Callers
<1> QED
  BY <1>1, <1>2, Zenon DEF Gone

\* Blocks leave memory for good, and readers list only such blocks' files.
LEMMA GoneInvStep ==
  ASSUME Ordered, IInv, Next
  PROVE  GoneInv'
<1> USE DEF IInv
<1>1. \A b \in DOMAIN blocks' : b \notin {active'} \union pendingBlocks' => Gone(b)'
  <2>1. CASE \E c : Rotates(c)
    BY <2>1, GoneStays, Zenon DEF GoneInv, Rotates
  <2>2. CASE DOMAIN blocks' = DOMAIN blocks /\ UNCHANGED <<active, pendingBlocks>>
    BY <2>2, GoneStays, Zenon DEF GoneInv
  <2>3. ASSUME NEW c \in Blocks, NEW by \in Callers, dropPendingBlock(c, by)
        PROVE  \A b \in DOMAIN blocks' : b \notin {active'} \union pendingBlocks' => Gone(b)'
    <3>1. Stage(c, by)' = "wait" /\ UNCHANGED <<blocks, active>> /\ pendingBlocks' = pendingBlocks \ {c}
      BY <2>3, JobSteps, Zenon DEF dropPendingBlock, JobMoves, Stage
    <3>2. c \in DOMAIN blocks /\ c # active => Stage(c, "rotate")' # "none"
      BY <2>3, StoredBefore, Zenon DEF JobInv, Callers
    <3>3. c \in DOMAIN blocks /\ c # active => Gone(c)'
      BY <3>1, <3>2, Zenon DEF Gone, WrittenTwice, Callers
    <3> QED
      BY <3>1, <3>3, GoneStays, Zenon DEF GoneInv
  <2>4. CASE \E w \in Writes : Write(w)
    BY <2>1, <2>2, <2>4, Rotation, InsertStep, Zenon
    DEF Write, appender, RotateFull, BeginWrite, InsertRecord, FinishWrite, tableVars, JobInv, PartsSet
  <2>5. ASSUME NEW b \in Blocks, NEW by \in Callers, writeBlock(b, by), ~dropPendingBlock(b, by)
        PROVE  DOMAIN blocks' = DOMAIN blocks /\ UNCHANGED <<active, pendingBlocks>>
    BY <2>5, JobSteps, Zenon
       DEF writeBlock, SyncBlock, Serialize, Upload, UploadFails, SerializeFails,
                          DeleteFile, Dropped, tableVars, PartsSet
  <2>6. CASE Rotate
    BY <2>1, <2>2, <2>6, Rotation, Zenon DEF Rotate, JobInv
  <2> QED
    BY <2>2, <2>3, <2>4, <2>5, <2>6, ReadFrame, CloseFrame, Zenon DEF Next, Callers, tableVars
<1>2. ASSUME NEW r \in Readers
      PROVE  ListsGone(r)'
  <2>0. ListsGone(r) /\ PassedOnce(r)
    BY Zenon DEF GoneInv, ReaderInv
  <2>1. CASE SameReader(r)
    <3>1. rpc'[r] = "scan" => lastBlock'[r] <= clock' /\ \A b \in DOMAIN blocks' : blocks'[b].time < lastBlock'[r] => Gone(b)'
      <4>1. CASE \E c : Rotates(c)
        <5>1. /\ clock' = clock + 1 /\ blocks'[active'].time = clock' /\ clock \in Nat
              /\ DOMAIN blocks' = DOMAIN blocks \union {active'}
              /\ \A c \in DOMAIN blocks : blocks'[c] = blocks[c]
          BY <4>1 DEF Rotates, TimeInv, BlockTypes
        <5> QED
          BY <2>0, <2>1, <5>1, GoneStays DEF ListsGone, SameReader, ReaderTypes
      <4>2. CASE UNCHANGED <<active, clock>> /\ DOMAIN blocks' = DOMAIN blocks
        BY <2>0, <2>1, <4>2, GoneStays, BlocksStay, Zenon DEF ListsGone, SameReader
      <4> QED
        BY <4>1, <4>2, BlocksStay, Zenon
    <3>2. rpc'[r] = "files" => \A b \in files'[r] :
              b \in DOMAIN blocks' /\ Gone(b)' /\ (b \in DOMAIN bucket' \/ WrittenTwice(b)')
      BY <2>0, <2>1, GoneStays, BlocksStay, BlockFacts, StoredBefore, Zenon
         DEF ListsGone, SameReader
    <3>3. rpc'[r] = "failed" => \E b \in DOMAIN blocks' :
              WrittenTwice(b)' \/ (Gone(b)' /\ b \in DOMAIN bucket' /\ bucket'[b].is = Torn)
      BY <2>0, <2>1, GoneStays, BlocksStay, BlockFacts, StoredBefore, Zenon
         DEF ListsGone, SameReader
    <3> QED
      BY <3>1, <3>2, <3>3, Zenon DEF ListsGone
  <2>2. CASE Read(r)
    <3>0. /\ UNCHANGED <<blocks, clock, bucket, jobs>>
          /\ \A b : (Gone(b)' <=> Gone(b)) /\ (WrittenTwice(b)' <=> WrittenTwice(b))
      BY <2>2, ReadFrame, Zenon DEF tableVars, storeVars, Gone, WrittenTwice, Stage
    <3>1. CASE View(r)
      BY <3>1, Zenon DEF View, ReaderGoes, ListsGone, ReaderTypes
    <3>2. CASE memoryBlocks(r)
      <4> DEFINE bs   == {active} \union pendingBlocks
                 last == LastReadBlockTimestamp(bs)
      <4>1. bs \subseteq DOMAIN blocks /\ last \in Nat /\ \A b \in bs : last <= blocks[b].time
        BY Pins, Zenon
      <4>2. lastBlock'[r] = last /\ rpc'[r] = "scan"
        BY <3>2, Zenon DEF memoryBlocks, ReaderGoes, ReaderTypes
      <4>3. last <= clock
        BY <4>1, Zenon DEF TimeInv
      <4>4. \A b \in DOMAIN blocks : blocks[b].time < last => b \notin bs
        BY <4>1, BlockFacts
      <4>5. \A b \in DOMAIN blocks : blocks[b].time < last => Gone(b)
        BY <4>4, Zenon DEF GoneInv
      <4> HIDE DEF bs, last
      <4> QED
        BY <3>0, <4>2, <4>3, <4>5, Zenon DEF ListsGone
    <3>3. ASSUME NEW b \in Blocks, ScanBlock(r, b)
          PROVE  ListsGone(r)'
      BY <2>0, <3>0, <3>3, Zenon DEF ScanBlock, ListsGone
    <3>4. CASE ScanSource(r)
      <4>1. /\ rpc[r] = "scan" /\ rpc'[r] = "files"
            /\ \A b \in files'[r] : b \in DOMAIN bucket /\ ~Ignored(r, b)
        BY <3>4, Zenon DEF ScanSource, ReaderGoes, ReaderTypes
      <4>2. \A b \in DOMAIN blocks : ~Ignored(r, b) => blocks[b].time < lastBlock[r]
        BY <2>0, <4>1, BlockFacts DEF PassedOnce, Ignored, ReaderTypes
      <4> QED
        BY <2>0, <3>0, <4>1, <4>2, Zenon DEF ListsGone, JobInv
    <3>5. ASSUME NEW b \in Blocks, ProcessFile(r, b)
          PROVE  ListsGone(r)'
      <4>1. rpc[r] = "files" /\ b \in files[r]
        BY <3>5, Zenon DEF ProcessFile
      <4>2. CASE b \notin DOMAIN bucket \/ bucket[b].is = Torn
        <5>1. rpc'[r] = "failed"
          BY <3>5, <4>2, Zenon DEF ProcessFile, Unpin, ReaderGoes, ReaderTypes
        <5> QED
          BY <2>0, <3>0, <4>1, <4>2, <5>1, Zenon DEF ListsGone
      <4>3. CASE files'[r] = files[r] \ {b} /\ UNCHANGED rpc
        BY <2>0, <3>0, <4>1, <4>3, Zenon DEF ListsGone
      <4> QED
        BY <3>5, <4>2, <4>3, Zenon DEF ProcessFile, ReaderTypes
    <3>6. CASE ReadReturns(r)
      BY <3>6, Zenon DEF ReadReturns, Unpin, ReaderGoes, ListsGone, ReaderTypes
    <3> QED
      BY <2>2, <3>1, <3>2, <3>3, <3>4, <3>5, <3>6, Zenon DEF Read
  <2> QED
    BY <2>1, <2>2, ReadersApart, Zenon
<1> QED
  BY <1>1, <1>2, Zenon DEF GoneInv
-----------------------------------------------------------------------------
\* A step changes what a reader's transaction covers only if it is the reader's View.
LEMMA VisibleSame ==
  ASSUME IInv, Next, NEW r \in Readers, rtx'[r] = rtx[r]
  PROVE  Visible(r)' = Visible(r)
<1> USE DEF IInv
<1>1. ASSUME UNCHANGED wtx
      PROVE  Visible(r)' = Visible(r)
  BY <1>1, Zenon DEF Visible
<1>2. ASSUME NEW w \in Writes, BeginWrite(w)
      PROVE  Visible(r)' = Visible(r)
  <2>1. wtx' = [wtx EXCEPT ![w] = tx + 1] /\ wpc[w] = "begin"
    BY <1>2, Zenon DEF BeginWrite
  <2>2. wtx[w] = 0 /\ wtx'[w] = tx + 1 /\ tx \in Nat /\ rtx[r] \in Nat /\ rtx[r] <= tx
    BY <2>1, Zenon DEF TxInv, WriterTypes, ReaderTypes
  <2>3. w \notin Visible(r) /\ w \notin Visible(r)'
    BY <2>2 DEF Visible
  <2>4. \A v \in Writes : v # w => wtx'[v] = wtx[v]
    BY <2>1, Zenon DEF WriterTypes
  <2> QED
    BY <2>3, <2>4, Zenon DEF Visible
<1>3. ASSUME NEW w \in Writes, Write(w), ~BeginWrite(w)
      PROVE  UNCHANGED wtx
  BY <1>3, Zenon DEF Write, appender, RotateFull, InsertRecord, FinishWrite
<1>4. CASE Rotate
  BY <1>1, <1>4, Zenon DEF Rotate, writerVars
<1> QED
  BY <1>1, <1>2, <1>3, <1>4, WriteBlockFrame, ReadFrame, CloseFrame, Zenon DEF Next, Callers, writerVars

\* What a reader is owed is passed to it, or goes where it will look.
LEMMA CompleteInvStep ==
  ASSUME Ordered, IInv, Next
  PROVE  CompleteInv'
<1> USE DEF IInv
<1> SUFFICES ASSUME NEW r \in Readers, NEW w \in Visible(r)', w \notin hidden'[r], Stored(wblock[w])'
             PROVE  WillSee(r, w)'
  BY Zenon DEF CompleteInv
<1>0. w \in Writes
  BY Zenon DEF Visible
<1>1. ASSUME w \in Visible(r)
      PROVE  /\ wpc[w] = "done" /\ wblock'[w] = wblock[w] /\ Stored(wblock[w])
             /\ wblock[w] \in DOMAIN blocks /\ wblock[w] \in Blocks
             /\ blocks'[wblock[w]].time = blocks[wblock[w]].time
             /\ Placed(w) /\ ~WrittenTwice(wblock[w])
  <2>1. wpc[w] = "done" /\ wblock'[w] = wblock[w]
    BY <1>0, <1>1, Settled, Zenon DEF TxInv
  <2>2. wblock[w] \in DOMAIN blocks /\ wblock[w] \in Blocks
    BY <1>0, <2>1, BlockFacts, Zenon DEF PlaceInv
  <2>3. Stored(wblock[w])
    BY <2>1, <2>2, StoredBefore, Zenon DEF Stored, WrittenTwice, Stage
  <2> QED
    BY <1>0, <2>1, <2>2, <2>3, BlocksStay, Zenon DEF PlaceInv, Stored
<1>2. CASE SameReader(r)
  <2>1. w \in Visible(r) \ hidden[r]
    BY <1>2, VisibleSame, Zenon DEF SameReader
  <2>2. WillSee(r, w)
    BY <1>1, <2>1, Zenon DEF CompleteInv
  <2> QED
    BY <1>1, <1>2, <2>1, <2>2, Zenon DEF WillSee, SameReader
<1>3. CASE Read(r)
  <2>0. UNCHANGED <<blocks, bucket, jobs, wblock, wtx, wpc>>
    BY <1>3, ReadFrame, Zenon DEF tableVars, storeVars, writerVars
  <2>1. CASE View(r)
    BY <2>1, Zenon DEF View, ReaderGoes, WillSee, ReaderTypes
  <2>2. ASSUME UNCHANGED rtx
        PROVE  w \in Visible(r)
    BY <2>2, VisibleSame, Zenon
  <2>3. CASE memoryBlocks(r)
    <3> DEFINE bs   == {active} \union pendingBlocks
               last == LastReadBlockTimestamp(bs)
    <3>1. /\ lastBlock'[r] = last /\ rpc'[r] = "scan" /\ unread'[r] = bs
          /\ hidden'[r] = {v \in Visible(r) : wblock[v] \notin bs
                             /\ \E p \in pendingBlocks : blocks[wblock[v]].time > blocks[p].time}
      BY <2>3, Zenon DEF memoryBlocks, ReaderGoes, ReaderTypes
    <3>2. w \in Visible(r)
      BY <2>2, <2>3, Zenon DEF memoryBlocks
    <3>3. CASE wblock[w] \in bs
      BY <1>1, <3>1, <3>2, <3>3, Zenon DEF WillSee
    <3>4. CASE wblock[w] \notin bs
      <4>1. \A p \in pendingBlocks : ~(blocks[wblock[w]].time > blocks[p].time)
        BY <3>1, <3>2, <3>4, Zenon
      <4>2. /\ wblock[w] \in DOMAIN blocks /\ wblock[w] \in Nat /\ blocks[wblock[w]].time \in Nat
            /\ active \in Nat
        BY <1>1, <3>2, BlockFacts, Zenon DEF BlockTypes
      <4>3. \A p \in pendingBlocks : blocks[wblock[w]].time < blocks[p].time
        BY <3>4, <4>1, <4>2, BlockFacts DEF BlockTypes, TimeInv
      <4>4. blocks[wblock[w]].time < blocks[active].time
        <5>1. wblock[w] < active
          BY <3>4, <4>2 DEF TimeInv
        <5> QED
          BY <4>2, <5>1, Zenon DEF TimeInv, BlockTypes
      <4>5. \E b \in bs : last = blocks[b].time
        BY Pins, Zenon
      <4>6. blocks[wblock[w]].time < last
        BY <4>3, <4>4, <4>5, Zenon
      <4> HIDE DEF last
      <4> QED
        BY <2>0, <3>1, <4>6, Zenon DEF WillSee
    <3> QED
      BY <3>3, <3>4, Zenon
  <2>4. ASSUME NEW b \in Blocks, ScanBlock(r, b)
        PROVE  WillSee(r, w)'
    <3> DEFINE ws == {v \in blocks[b].parts : wtx[v] <= rtx[r]}
               h  == {v \in Visible(r) : wblock[v] = b /\ Emptied(b)}
    <3>1. /\ rpc[r] = "scan" /\ rpc'[r] = "scan" /\ b \in unread[r] /\ Passed(r, ws)
          /\ unread'[r] = unread[r] \ {b} /\ UNCHANGED <<lastBlock, rtx>>
          /\ hidden'[r] = hidden[r] \union h
      BY <2>4, Zenon DEF ScanBlock, ReaderTypes
    <3>2. w \in Visible(r) /\ w \notin hidden[r] /\ WillSee(r, w)
      BY <1>1, <2>2, <3>1, Zenon DEF CompleteInv
    <3>3. seen'[r][w] = IF w \in ws THEN seen[r][w] + 1 ELSE seen[r][w]
      BY <1>0, <3>1, PassedTypes, Zenon
    <3>4. CASE wblock[w] = b
      <4>1. ~Emptied(b)
        BY <3>1, <3>2, <3>4, Zenon
      <4>2. InMemory(w)
        BY <1>1, <3>2, <3>4, <4>1, EmptiedBy, Zenon DEF JobInv, Placed, OnItsWay, OnFile
      <4>3. wtx[w] <= rtx[r]
        BY <3>2 DEF Visible, ReaderTypes
      <4>4. w \in blocks[b].parts
        BY <3>4, <4>2, Zenon DEF InMemory
      <4>5. w \in ws
        BY <4>3, <4>4, Zenon
      <4>6. seen[r][w] = 0
        BY <1>0, <3>1, <3>4, Zenon DEF ReaderInv, PassedOnce
      <4> HIDE DEF ws, h
      <4>7. seen'[r][w] = 1
        BY <3>3, <4>5, <4>6
      <4> QED
        BY <3>1, <4>7, Zenon DEF WillSee
    <3>5. CASE wblock[w] # b
      <4>1. b \in DOMAIN blocks
        BY <3>1, Zenon DEF ReaderInv, PassedOnce, ReaderTypes
      <4>2. w \notin ws
        BY <3>5, <4>1, Zenon DEF HomeInv, Lives
      <4> HIDE DEF ws
      <4> QED
        BY <2>0, <3>1, <3>2, <3>3, <3>5, <4>2, Zenon DEF WillSee
    <3> QED
      BY <3>4, <3>5, Zenon
  <2>5. CASE ScanSource(r)
    <3>1. /\ rpc[r] = "scan" /\ unread[r] = {} /\ rpc'[r] = "files" /\ UNCHANGED <<rtx, hidden, seen>>
          /\ files'[r] = {b \in DOMAIN bucket : ~Ignored(r, b)}
      BY <2>5, Zenon DEF ScanSource, ReaderGoes, ReaderTypes
    <3>2. w \in Visible(r) /\ w \notin hidden[r] /\ WillSee(r, w)
      BY <1>1, <2>2, <3>1, Zenon DEF CompleteInv
    <3>3. CASE seen[r][w] = 1
      BY <3>1, <3>3, Zenon DEF WillSee
    <3>4. CASE blocks[wblock[w]].time < lastBlock[r]
      <4>1. Gone(wblock[w])
        BY <1>1, <3>1, <3>2, <3>4, Zenon DEF GoneInv, ListsGone
      <4>2. OnFile(w)
        BY <1>1, <3>2, <4>1, PlaceByStage, Zenon DEF Gone, Callers, JobInv
      <4>3. ~Ignored(r, wblock[w])
        BY <1>1, <3>2, <3>4, BlockFacts DEF Ignored, ReaderTypes
      <4>4. wblock[w] \in files'[r]
        BY <3>1, <4>2, <4>3, Zenon DEF OnFile
      <4> QED
        BY <1>1, <3>1, <3>2, <4>4, Zenon DEF WillSee
    <3> QED
      BY <3>1, <3>2, <3>3, <3>4, Zenon DEF WillSee
  <2>6. ASSUME NEW b \in Blocks, ProcessFile(r, b)
        PROVE  WillSee(r, w)'
    <3>1. rpc[r] = "files" /\ b \in files[r] /\ UNCHANGED <<rtx, hidden>>
      BY <2>6, Zenon DEF ProcessFile
    <3>2. w \in Visible(r) /\ w \notin hidden[r] /\ WillSee(r, w)
      BY <1>1, <2>2, <3>1, Zenon DEF CompleteInv
    <3>3. CASE rpc'[r] = "failed"
      BY <3>3, Zenon DEF WillSee
    <3>4. CASE /\ b \in DOMAIN bucket /\ files'[r] = files[r] \ {b}
               /\ Passed(r, bucket[b].rows) /\ UNCHANGED rpc
      <4>1. seen'[r][w] = IF w \in bucket[b].rows THEN seen[r][w] + 1 ELSE seen[r][w]
        BY <1>0, <3>4, PassedTypes, Zenon
      <4>2. CASE wblock[w] = b
        <5>1. Gone(b)
          BY <3>1, Zenon DEF GoneInv, ListsGone
        <5>2. OnFile(w)
          BY <1>1, <3>2, <4>2, <5>1, PlaceByStage, Zenon DEF Gone, Callers, JobInv
        <5>3. seen[r][w] = 0
          BY <1>0, <3>1, <4>2, Zenon DEF ReaderInv, PassedOnce
        <5> QED
          BY <3>1, <3>4, <4>1, <4>2, <5>2, <5>3 DEF OnFile, WillSee
      <4>3. CASE wblock[w] # b
        <5>1. w \notin bucket[b].rows
          BY <3>4, <4>3, Zenon DEF HomeInv, Lives
        <5> QED
          BY <2>0, <3>1, <3>2, <3>4, <4>1, <4>3, <5>1, Zenon DEF WillSee
      <4> QED
        BY <4>2, <4>3, Zenon
    <3> QED
      BY <2>6, <3>3, <3>4, Zenon DEF ProcessFile, Unpin, ReaderGoes, ReaderTypes
  <2>7. CASE ReadReturns(r)
    <3>1. /\ rpc[r] = "files" /\ files[r] = {} /\ rpc'[r] = "done" /\ UNCHANGED <<rtx, hidden, seen>>
      BY <2>7, Zenon DEF ReadReturns, Unpin, ReaderGoes, ReaderTypes
    <3>2. w \in Visible(r) /\ w \notin hidden[r] /\ WillSee(r, w)
      BY <1>1, <2>2, <3>1, Zenon DEF CompleteInv
    <3> QED
      BY <3>1, <3>2, Zenon DEF WillSee
  <2> QED
    BY <1>3, <2>1, <2>3, <2>4, <2>5, <2>6, <2>7, Zenon DEF Read
<1> QED
  BY <1>2, <1>3, ReadersApart, Zenon
-----------------------------------------------------------------------------
\* The invariant holds in the beginning.
LEMMA InitIInv == Init => IInv
<1> SUFFICES ASSUME Init
             PROVE  IInv
  BY Zenon
<1>1. 1 \in Blocks /\ MaxBlocks \in Nat /\ 1 <= MaxBlocks
  BY TableAssumption DEF Blocks, TableAssumption
<1>2. newTableBlock(1) \in BlockRecord /\ newTableBlock(1).time = 1 /\ newTableBlock(1).parts = {}
  BY Zenon DEF newTableBlock, BlockRecord
<1>3. /\ blocks \in Seq(BlockRecord) /\ Len(blocks) = 1 /\ DOMAIN blocks = {1}
      /\ blocks[1].time = 1 /\ blocks[1].parts = {}
  BY <1>2 DEF Init
<1>4. BlockTypes
  <2>1. active = 1 /\ pendingBlocks = {} /\ clock = 1 /\ closing = FALSE
    BY Zenon DEF Init
  <2> QED
    BY <1>1, <1>3, <2>1, Zenon DEF BlockTypes
<1> USE DEF Init
<1>5. NoJob \in JobRecord
  BY Zenon DEF NoJob, JobRecord, Stages
<1>6. JobTypes /\ \A b \in Blocks, by \in Callers : Stage(b, by) = "none" /\ jobs[b][by].rows = {}
  BY <1>5, Zenon DEF NoJob, JobTypes, Callers, Stage
<1>7. JobInv
  BY <1>3, <1>6, Zenon DEF JobInv
<1>8. WriterTypes
  BY Zenon DEF WriterTypes
<1>9. ReaderTypes
  BY Zenon DEF ReaderTypes
<1>10. LockInv
  BY <1>6, Zenon DEF LockInv, Nobody, Closer
<1>11. SealInv
  BY <1>1, <1>3, <1>6, Zenon DEF SealInv, Sealed, Callers, Holds
<1>12. HomeInv
  BY <1>3, <1>6, Zenon DEF HomeInv
<1>13. TimeInv
  BY <1>3 DEF TimeInv
<1>14. TxInv
  BY DEF TxInv, Visible
<1>15. PlaceInv
  BY <1>6, Zenon DEF PlaceInv, Callers
<1>16. ReaderInv
  BY DEF ReaderInv, PassedOnce
<1>17. GoneInv
  BY <1>3, Zenon DEF GoneInv, ListsGone
<1>18. CompleteInv
  BY Zenon DEF CompleteInv, WillSee
<1> QED
  BY <1>4, <1>7, <1>8, <1>9, <1>10, <1>11, <1>12, <1>13, <1>14, <1>15, <1>16, <1>17, <1>18,
     SMTT(30) DEF IInv

\* A stuttering step preserves it.
LEMMA Stutter ==
  ASSUME IInv, UNCHANGED vars
  PROVE  IInv'
<1> USE DEF IInv, vars
<1>1. BlockTypes'
  BY Zenon DEF tableVars, BlockTypes
<1>2. JobInv'
  BY Zenon DEF tableVars, storeVars, JobInv, JobTypes, Stage
<1>3. WriterTypes'
  BY Zenon DEF writerVars, WriterTypes
<1>4. ReaderTypes'
  BY Zenon DEF readerVars, ReaderTypes
<1>5. LockInv'
  BY Zenon DEF tableVars, storeVars, LockInv, Stage
<1>6. SealInv'
  BY Zenon DEF tableVars, storeVars, writerVars, SealInv, Sealed, PendingWriters, Stage
<1>7. HomeInv'
  BY DEF tableVars, storeVars, writerVars, HomeInv, Lives
<1>8. TimeInv'
  BY Zenon DEF tableVars, TimeInv
<1>9. TxInv'
  BY Zenon DEF writerVars, readerVars, TxInv, Visible
<1>10. PlaceInv'
  BY Zenon DEF tableVars, storeVars, writerVars, PlaceInv, Placed, InMemory, OnItsWay, OnFile,
       Emptied, Stored, WrittenTwice, Stage
<1>11. ReaderInv'
  BY Zenon DEF tableVars, writerVars, readerVars, ReaderInv, PassedOnce
<1>12. GoneInv'
  BY Zenon DEF tableVars, storeVars, readerVars, GoneInv, ListsGone, Gone, WrittenTwice, Stage
<1>13. CompleteInv'
  BY Zenon
     DEF tableVars, storeVars, writerVars, readerVars, CompleteInv, WillSee, Visible, Stored,
                 WrittenTwice, Stage
<1> QED
  BY <1>1, <1>2, <1>3, <1>4, <1>5, <1>6, <1>7, <1>8, <1>9, <1>10, <1>11, <1>12, <1>13, Zenon

\* The natural numbers are well ordered.
LEMMA LeastNat == Ordered
<1> DEFINE less == {ss \in Nat \X Nat : ss[1] < ss[2]}
<1> SUFFICES ASSUME NEW S \in SUBSET Nat, S # {}
             PROVE  \E x \in S : \A y \in S : x <= y
  BY Zenon DEF Ordered
<1>1. IsWellFoundedOn(less, Nat)
  BY NatLessThanWellFounded, Zenon DEF OpToRel
<1>2. \A x, y \in Nat : <<y, x>> \in less <=> y < x
  BY Zenon
<1> HIDE DEF less
<1>3. PICK x \in S : \A y \in S : ~ (<<y, x>> \in less)
  BY <1>1, WFMin, Zenon
<1>4. ASSUME NEW y \in S PROVE x <= y
  <2>1. x \in Nat /\ y \in Nat
    BY Zenon
  <2>2. ~ (y < x)
    BY <1>2, <1>3, <2>1, Zenon
  <2> QED
    BY <2>1, <2>2
<1> QED
  BY <1>4, Zenon

(***************************************************************************)
(* The invariant holds for every number of writes, readers and blocks, of   *)
(* rotations by users and of failures.                                      *)
(***************************************************************************)
THEOREM InvariantHolds == Spec => []IInv
<1>1. Init => IInv
  BY InitIInv, Zenon
<1>2. IInv /\ [Next]_vars => IInv'
  BY BlockTypesStep, CompleteInvStep, GoneInvStep, HomeInvStep, JobInvStep, LeastNat, LockInvStep,
       PlaceInvStep, ReaderInvStep, ReaderTypesStep, SealInvStep, Stutter, TimeInvStep, TxInvStep,
       WriterTypesStep DEF IInv
<1> QED
  BY <1>1, <1>2, PTL DEF Spec

\* Types, and who may wait with the table lock held (dropPendingBlock, close).
THEOREM TableTypes == Spec => []TypeOK
<1>1. IInv => TypeOK
  BY Zenon DEF IInv, BlockTypes, BlockRecord, JobInv, ReaderTypes, LockInv, Callers, TypeOK
<1> QED
  BY <1>1, InvariantHolds, PTL

(***************************************************************************)
(* writeBlock waits once for a block's writers, and no writer comes after   *)
(* that (table.go:431).                                                     *)
(***************************************************************************)
THEOREM BlocksSealed == Spec => []Sealed
<1>1. IInv => Sealed
  BY Zenon DEF IInv, SealInv
<1> QED
  BY <1>1, InvariantHolds, PTL

(***************************************************************************)
(* A query is passed no write twice, whatever is rotated, persisted and     *)
(* dropped while it runs (table.go:1067).                                   *)
(***************************************************************************)
THEOREM ReadsOnce == Spec => []ReadOnce
<1>1. IInv => ReadOnce
  BY Zenon DEF IInv, ReaderInv, PassedOnce, ReadOnce
<1> QED
  BY <1>1, InvariantHolds, PTL

(***************************************************************************)
(* A query that returns missed only writes that ReadComplete excepts, and a *)
(* query that fails did so on a file that a failed delete left behind or    *)
(* whose block was written twice (memoryBlocks, ScanSource, ProcessFile).   *)
(***************************************************************************)
THEOREM ReadsComplete == Spec => []ReadComplete
<1>1. IInv => ReadComplete
  BY Zenon DEF IInv, CompleteInv, WillSee, GoneInv, ListsGone, ReadComplete
<1> QED
  BY <1>1, InvariantHolds, PTL
=============================================================================
