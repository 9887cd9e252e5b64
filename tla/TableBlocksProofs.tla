-------------------------- MODULE TableBlocksProofs --------------------------
(***************************************************************************)
(* An inductive invariant of Table, what the steps of Table do to its state,*)
(* and that the parts of the invariant that are not about readers are       *)
(* preserved: the types, the table lock, sealed blocks, the blocks that     *)
(* records live in, the blocks' times, the transactions that readers cover, *)
(* and PlaceInv: a write whose block is stored never lacks a place while    *)
(* writeBlock takes the block from memory to its file.                      *)
(***************************************************************************)
EXTENDS Table, TLAPS

Callers == {"rotate", "close"}

Stages == {"none", "sync", "serialize", "upload", "delete", "drop", "wait", "done"}

JobRecord == [stage : Stages, skip : BOOLEAN, rows : SUBSET Writes]

BlockRecord == [time : Nat, parts : SUBSET Writes]

(***************************************************************************)
(* The inductive invariant.                                                 *)
(*                                                                         *)
(* BlockTypes, JobInv, WriterTypes, ReaderTypes: TypeOK and the types that  *)
(* it leaves out; writeBlock is called for blocks that exist.               *)
(***************************************************************************)
BlockTypes ==
    /\ blocks \in Seq(BlockRecord)
    /\ Len(blocks) <= MaxBlocks
    /\ active \in DOMAIN blocks
    /\ pendingBlocks \subseteq DOMAIN blocks \ {active}
    /\ clock \in Nat
    /\ closing \in BOOLEAN

JobTypes == jobs \in [Blocks -> [Callers -> JobRecord]]

JobInv ==
    /\ JobTypes
    /\ \A b \in DOMAIN blocks : b = active \/ Stage(b, "rotate") # "none"
    /\ \A b \in Blocks, by \in Callers : Stage(b, by) # "none" => b \in DOMAIN blocks
    /\ DOMAIN bucket \subseteq DOMAIN blocks

WriterTypes ==
    /\ wpc \in [Writes -> {"start", "refused", "rotate", "begin", "insert", "commit", "done"}]
    /\ wblock \in [Writes -> Nat]
    /\ wtx \in [Writes -> Nat]
    /\ tx \in Nat

ReaderTypes ==
    /\ rpc \in [Readers -> {"start", "pin", "scan", "files", "done", "failed"}]
    /\ rtx \in [Readers -> Nat]
    /\ pinned \in [Readers -> SUBSET Nat]
    /\ unread \in [Readers -> SUBSET Nat]
    /\ lastBlock \in [Readers -> Nat]
    /\ files \in [Readers -> SUBSET Nat]
    /\ seen \in [Readers -> [Writes -> Nat]]
    /\ hidden \in [Readers -> SUBSET Writes]
    /\ \A r \in Readers : unread[r] \subseteq pinned[r] /\ (rpc[r] # "scan" => unread[r] = {})

(***************************************************************************)
(* LockInv: whoever waits with the table lock held has the lock.            *)
(***************************************************************************)
LockInv ==
    /\ lock \in {Nobody, Closer} \union {j \in Blocks \X Callers : Stage(j[1], j[2]) = "wait"}
    /\ lock = Closer <=> cpc = "waiting"
    /\ \A b \in Blocks, by \in Callers : Stage(b, by) = "wait" => lock = <<b, by>>

(***************************************************************************)
(* SealInv: nobody is given a block that has been handed to writeBlock: a   *)
(* rotated block is not active, and Close writes one after closing is set.  *)
(***************************************************************************)
SealInv ==
    /\ Sealed
    /\ Stage(active, "rotate") = "none"
    /\ \A b \in Blocks : Stage(b, "close") # "none" => closing
    /\ cpc \in {"open", "waiting"} \/ closing
    /\ \A w \in Writes : wpc[w] \in Holds \union {"rotate"} => wblock[w] \in DOMAIN blocks

(***************************************************************************)
(* HomeInv: a write is in no block, upload or file but its own block's.     *)
(***************************************************************************)
Lives(w, b) == w \in Writes /\ wblock[w] = b /\ wpc[w] \in {"commit", "done"}

HomeInv ==
    /\ \A b \in DOMAIN blocks : \A w \in blocks[b].parts : Lives(w, b)
    /\ \A b \in Blocks, by \in Callers : \A w \in jobs[b][by].rows : Lives(w, b)
    /\ \A b \in DOMAIN bucket : \A w \in bucket[b].rows : Lives(w, b)

(***************************************************************************)
(* ReaderInv: where the writes come from that a reader has been passed, and *)
(* why it will not be passed them again: a file that it lists is older than *)
(* all blocks that it pinned.                                               *)
(***************************************************************************)
PassedOnce(r) ==
    /\ \A w \in Writes : seen[r][w] <= 1
    /\ rpc[r] \in {"start", "pin"} => \A w \in Writes : seen[r][w] = 0
    /\ rpc[r] = "scan" =>
           /\ \A w \in Writes : seen[r][w] # 0 =>
                  wpc[w] \in {"commit", "done"} /\ wblock[w] \in pinned[r] \ unread[r]
           /\ lastBlock[r] # 0
           /\ \A b \in pinned[r] : b \in DOMAIN blocks /\ blocks[b].time >= lastBlock[r]
    /\ rpc[r] = "files" => \A w \in Writes : seen[r][w] # 0 =>
           wpc[w] \in {"commit", "done"} /\ wblock[w] \notin files[r]

ReaderInv == \A r \in Readers : PassedOnce(r)

(***************************************************************************)
(* TimeInv: a later block has a later time, and the active one the last.    *)
(***************************************************************************)
TimeInv ==
    /\ blocks[active].time = clock
    /\ \A b \in DOMAIN blocks : blocks[b].time \in 1 .. clock /\ b <= active
    /\ \A b, c \in DOMAIN blocks : b < c => blocks[b].time < blocks[c].time

(***************************************************************************)
(* TxInv: transactions differ, and those that a reader covers are committed.*)
(***************************************************************************)
TxInv ==
    /\ \A w \in Writes : IF wpc[w] \in {"insert", "commit", "done"}
                         THEN wtx[w] \in 1 .. tx ELSE wtx[w] = 0
    /\ \A v, w \in Writes : wtx[v] = wtx[w] /\ wtx[v] # 0 => v = w
    /\ \A c \in committed : \E w \in Writes : wtx[w] = c /\ wpc[w] = "done"
    /\ \A r \in Readers : rtx[r] <= tx /\ \A w \in Visible(r) : wpc[w] = "done"

(***************************************************************************)
(* PlaceInv: a write whose block is stored is in the block, on its way or   *)
(* in the block's file, as far as the block's only writeBlock has come.     *)
(***************************************************************************)
InMemory(w) == w \in blocks[wblock[w]].parts /\ ~Emptied(wblock[w])

OnItsWay(w) == \E by \in Callers :
    Stage(wblock[w], by) = "upload" /\ w \in jobs[wblock[w]][by].rows

OnFile(w) ==
    /\ \E by \in Callers : Stage(wblock[w], by) \in {"drop", "wait", "done"}
    /\ wblock[w] \in DOMAIN bucket
    /\ bucket[wblock[w]].is = Sound
    /\ w \in bucket[wblock[w]].rows

Placed(w) == InMemory(w) \/ OnItsWay(w) \/ OnFile(w)

PlaceInv ==
    /\ \A w \in Writes : wpc[w] \in {"commit", "done"} =>
           /\ wblock[w] \in DOMAIN blocks
           /\ Stored(wblock[w]) => Placed(w)
    /\ cpc \in {"open", "waiting", "active"} => \A b \in Blocks : Stage(b, "close") = "none"

(***************************************************************************)
(* GoneInv: a block that is neither active nor pending has its file for     *)
(* good, unless it is written twice; the files that a reader lists are of   *)
(* such blocks.                                                             *)
(***************************************************************************)
Gone(b) == WrittenTwice(b) \/ Stage(b, "rotate") \in {"wait", "done"}

ListsGone(r) ==
    /\ rpc[r] = "scan" =>
           /\ lastBlock[r] <= clock
           /\ \A b \in DOMAIN blocks : blocks[b].time < lastBlock[r] => Gone(b)
    /\ rpc[r] = "files" => \A b \in files[r] :
           b \in DOMAIN blocks /\ Gone(b) /\ (b \in DOMAIN bucket \/ WrittenTwice(b))
    /\ rpc[r] = "failed" => \E b \in DOMAIN blocks :
           WrittenTwice(b) \/ (Gone(b) /\ b \in DOMAIN bucket /\ bucket[b].is = Torn)

GoneInv ==
    /\ \A b \in DOMAIN blocks : b \notin {active} \union pendingBlocks => Gone(b)
    /\ \A r \in Readers : ListsGone(r)

(***************************************************************************)
(* CompleteInv: what a reader has still to be passed is in a block it has   *)
(* pinned or in a file that it will list.                                   *)
(***************************************************************************)
WillSee(r, w) ==
    /\ rpc[r] = "scan" => \/ wblock[w] \in unread[r]
                          \/ seen[r][w] = 1
                          \/ blocks[wblock[w]].time < lastBlock[r]
    /\ rpc[r] = "files" => seen[r][w] = 1 \/ wblock[w] \in files[r]
    /\ rpc[r] = "done" => seen[r][w] = 1

CompleteInv ==
    \A r \in Readers : \A w \in Visible(r) \ hidden[r] : Stored(wblock[w]) => WillSee(r, w)

IInv ==
    /\ BlockTypes /\ JobInv /\ WriterTypes /\ ReaderTypes
    /\ LockInv /\ SealInv /\ HomeInv /\ TimeInv /\ TxInv /\ PlaceInv
    /\ ReaderInv /\ GoneInv /\ CompleteInv
-----------------------------------------------------------------------------
(***************************************************************************)
(* The naturals are well ordered. The proof needs the induction library, so *)
(* the lemmas that use it have it as a hypothesis and TableProofs, which     *)
(* loads the library, proves it (LeastNat).                                 *)
(***************************************************************************)
Ordered == \A S \in SUBSET Nat : S # {} => \E x \in S : \A y \in S : x <= y

\* The least element of a set of naturals.
LEMMA MinNat ==
  ASSUME Ordered, NEW S \in SUBSET Nat, S # {}
  PROVE  Min(S) \in S /\ \A y \in S : Min(S) <= y
<1>1. \E x \in S : \A y \in S : x <= y
  BY Zenon DEF Ordered
<1> QED
  BY <1>1, Zenon DEF Min

\* The greatest element is as far from the bound as the least distance.
LEMMA MaxNat ==
  ASSUME Ordered, NEW n \in Nat, NEW S \in SUBSET (0 .. n), S # {}
  PROVE  Max(S) \in S
<1> DEFINE T == {n - y : y \in S}
<1>0. \A y \in S : n - y \in Nat
  OBVIOUS
<1>1. T \in SUBSET Nat /\ T # {}
  BY <1>0, Zenon
<1>2. Min(T) \in T /\ \A z \in T : Min(T) <= z
  BY <1>1, MinNat, Zenon
<1>3. PICK x \in S : Min(T) = n - x
  BY <1>2, Zenon
<1>4. \A y \in S : n - x <= n - y
  BY <1>2, <1>3, Zenon
<1>5. \A y \in S : x >= y
  BY <1>4
<1> QED
  BY <1>5, Zenon DEF Max
-----------------------------------------------------------------------------
(***************************************************************************)
(* What the actors leave alone.                                             *)
(***************************************************************************)
LEMMA WriteFrame ==
  ASSUME NEW w \in Writes, Write(w)
  PROVE  UNCHANGED <<lock, closing, bucket, cpc, failures, lost, readerVars>>
BY Zenon
   DEF Write, appender, RotateFull, BeginWrite, InsertRecord, FinishWrite, tableVars, storeVars

\* writeBlock touches no writer and no reader.
LEMMA WriteBlockFrame ==
  ASSUME NEW b \in Blocks, NEW by \in Callers, writeBlock(b, by)
  PROVE  UNCHANGED <<active, closing, clock, cpc, manual, writerVars, readerVars>>
BY Zenon DEF writeBlock, SyncBlock, Serialize, Upload, UploadFails, SerializeFails, DeleteFile,
       dropPendingBlock, Dropped, tableVars

\* A reader touches only its own state.
LEMMA ReadFrame ==
  ASSUME NEW r \in Readers, Read(r)
  PROVE  UNCHANGED <<tableVars, storeVars, writerVars>>
BY Zenon DEF Read, View, memoryBlocks, ScanBlock, ScanSource, ProcessFile, ReadReturns

\* Close touches neither blocks nor files.
LEMMA CloseFrame ==
  ASSUME Close
  PROVE  UNCHANGED <<blocks, active, pendingBlocks, clock, bucket, manual, failures, lost,
                     writerVars, readerVars>>
BY Zenon DEF Close, close, CloseWaited, CloseWrites, dropStorage, tableVars
-----------------------------------------------------------------------------
(***************************************************************************)
(* The changes of jobs and blocks, entry by entry.                          *)
(***************************************************************************)
JobMoves(b, by, s, ws) ==
    /\ JobTypes'
    /\ jobs'[b][by].stage = s /\ jobs'[b][by].rows = ws
    /\ \A c \in Blocks, d \in Callers : c # b \/ d # by => jobs'[c][d] = jobs[c][d]

\* Assigning the job of one caller.
LEMMA JobSet ==
  ASSUME JobTypes, NEW b \in Blocks, NEW by \in Callers, NEW j \in JobRecord,
         jobs' = [jobs EXCEPT ![b][by] = j]
  PROVE  JobMoves(b, by, j.stage, j.rows)
<1>1. jobs' = [jobs EXCEPT ![b] = [jobs[b] EXCEPT ![by] = j]]
  BY Zenon
<1> QED
  BY <1>1 DEF JobTypes, JobMoves

\* JobGoes keeps the rows.
LEMMA JobStage ==
  ASSUME JobTypes, NEW b \in Blocks, NEW by \in Callers, NEW s \in Stages, JobGoes(b, by, s)
  PROVE  JobMoves(b, by, s, jobs[b][by].rows)
<1> DEFINE j == [jobs[b][by] EXCEPT !.stage = s]
<1>1. jobs[b][by] \in JobRecord
  BY Zenon DEF JobTypes
<1>2. j \in JobRecord /\ j.stage = s /\ j.rows = jobs[b][by].rows
  BY <1>1, Zenon DEF JobRecord
<1>3. jobs' = [jobs EXCEPT ![b][by] = j]
  BY Zenon DEF JobGoes
<1> QED
  BY <1>2, <1>3, JobSet, Zenon

\* InsertRecord and Serialize change what is in one block.
PartsSet(b, ws) ==
    /\ blocks' \in Seq(BlockRecord)
    /\ Len(blocks') = Len(blocks) /\ DOMAIN blocks' = DOMAIN blocks
    /\ \A c \in DOMAIN blocks : /\ blocks'[c].time = blocks[c].time
                                /\ blocks'[c].parts = IF c = b THEN ws ELSE blocks[c].parts

\* Appending to a sequence.
LEMMA SeqAppend ==
  ASSUME NEW S, NEW s \in Seq(S), NEW x \in S
  PROVE  /\ Append(s, x) \in Seq(S)
         /\ Len(Append(s, x)) = Len(s) + 1
         /\ \A j \in DOMAIN s : Append(s, x)[j] = s[j]
         /\ Append(s, x)[Len(s) + 1] = x
OBVIOUS

\* Replacing an element of a sequence.
LEMMA SeqElement ==
  ASSUME NEW S, NEW s \in Seq(S), NEW i \in DOMAIN s, NEW x \in S
  PROVE  /\ s[i] \in S
         /\ [s EXCEPT ![i] = x] \in Seq(S)
         /\ Len([s EXCEPT ![i] = x]) = Len(s)
         /\ DOMAIN [s EXCEPT ![i] = x] = DOMAIN s
         /\ \A j \in DOMAIN s : [s EXCEPT ![i] = x][j] = IF j = i THEN x ELSE s[j]
OBVIOUS

\* A block is a number up to MaxBlocks; what its entry holds.
LEMMA BlockFacts ==
  ASSUME BlockTypes
  PROVE  /\ active \in Blocks
         /\ \A b \in DOMAIN blocks : /\ b \in Blocks /\ b \in Nat
                                     /\ blocks[b].time \in Nat
                                     /\ blocks[b].parts \in SUBSET Writes
<1>1. \A b \in DOMAIN blocks : b \in Blocks /\ b \in Nat
  BY TableAssumption DEF BlockTypes, Blocks, TableAssumption
<1>2. \A b \in DOMAIN blocks : blocks[b] \in BlockRecord
  BY SeqElement DEF BlockTypes
<1>3. \A b \in DOMAIN blocks : blocks[b].time \in Nat /\ blocks[b].parts \in SUBSET Writes
  BY <1>2, Zenon DEF BlockRecord
<1> QED
  BY <1>1, <1>3, Zenon DEF BlockTypes

\* What assigning the parts of one block does.
LEMMA Parts ==
  ASSUME BlockTypes, NEW b \in DOMAIN blocks, NEW ws \in SUBSET Writes,
         blocks' = [blocks EXCEPT ![b].parts = ws]
  PROVE  PartsSet(b, ws)
<1> DEFINE x == [blocks[b] EXCEPT !.parts = ws]
<1>1. blocks \in Seq(BlockRecord)
  BY Zenon DEF BlockTypes
<1>2. blocks[b] \in BlockRecord
  BY <1>1, SeqElement
<1>3. x \in BlockRecord /\ x.time = blocks[b].time /\ x.parts = ws
  BY <1>2, Zenon DEF BlockRecord
<1>4. blocks' = [blocks EXCEPT ![b] = x]
  BY Zenon
<1> HIDE DEF x
<1>5. /\ blocks' \in Seq(BlockRecord) /\ Len(blocks') = Len(blocks)
      /\ DOMAIN blocks' = DOMAIN blocks
      /\ \A c \in DOMAIN blocks : blocks'[c] = IF c = b THEN x ELSE blocks[c]
  BY <1>1, <1>3, <1>4, SeqElement
<1> QED
  BY <1>3, <1>5 DEF PartsSet

\* RotateBlock of the active block adds a block with a new time.
Rotates(b) ==
    /\ b = active /\ b \in Blocks
    /\ blocks' \in Seq(BlockRecord)
    /\ Len(blocks') = Len(blocks) + 1 /\ Len(blocks') <= MaxBlocks
    /\ DOMAIN blocks' = DOMAIN blocks \union {active'}
    /\ active' = Len(blocks) + 1 /\ active' \in Blocks
    /\ clock' \in {clock, clock + 1} /\ clock' # blocks[b].time
    /\ blocks'[active'] = [time |-> clock', parts |-> {}]
    /\ \A c \in DOMAIN blocks : blocks'[c] = blocks[c] /\ c # active'
    /\ pendingBlocks' = pendingBlocks \union {b}
    /\ JobMoves(b, "rotate", "sync", {})

\* RotateBlock does this, or nothing to the blocks: the block is no longer active.
LEMMA Rotation ==
  ASSUME BlockTypes, JobTypes, NEW b, NEW skip \in BOOLEAN, RotateBlock(b, skip)
  PROVE  Rotates(b) \/ UNCHANGED <<blocks, active, pendingBlocks, clock, jobs>>
<1>1. CASE active # b
  BY <1>1, Zenon DEF RotateBlock, StillActive
<1>2. CASE active = b
  <2>1. PICK t \in {clock, clock + 1} :
            NewTime(b, t) /\ clock' = t /\ blocks' = Append(blocks, newTableBlock(t))
    BY <1>2, Zenon DEF RotateBlock, StillActive
  <2>2. /\ Len(blocks) < MaxBlocks
        /\ active' = Len(blocks')
        /\ pendingBlocks' = pendingBlocks \union {b}
        /\ jobs' = [jobs EXCEPT ![b]["rotate"] = Job(skip)]
    BY <1>2, Zenon DEF RotateBlock, StillActive
  <2>3. newTableBlock(t) = [time |-> t, parts |-> {}] /\ newTableBlock(t) \in BlockRecord
    BY <2>1 DEF newTableBlock, BlockTypes, BlockRecord
  <2>4. /\ blocks' \in Seq(BlockRecord)
        /\ Len(blocks') = Len(blocks) + 1
        /\ \A c \in DOMAIN blocks : blocks'[c] = blocks[c]
        /\ blocks'[Len(blocks) + 1] = [time |-> t, parts |-> {}]
    BY <2>1, <2>3, SeqAppend DEF BlockTypes
  <2>5. b \in Blocks /\ Len(blocks) \in Nat /\ DOMAIN blocks = 1 .. Len(blocks)
    BY <1>2, TableAssumption DEF BlockTypes, Blocks, TableAssumption
  <2>6. DOMAIN blocks' = 1 .. (Len(blocks) + 1)
    BY <2>4
  <2>7. /\ DOMAIN blocks' = DOMAIN blocks \union {Len(blocks) + 1}
        /\ \A c \in DOMAIN blocks : c # Len(blocks) + 1
    BY <2>5, <2>6
  <2>8. Len(blocks) + 1 \in Blocks /\ Len(blocks) + 1 <= MaxBlocks
    BY <2>2, <2>5, TableAssumption DEF Blocks, TableAssumption
  <2>9. Job(skip) \in JobRecord /\ Job(skip).stage = "sync" /\ Job(skip).rows = {}
    BY Zenon DEF Job, NoJob, JobRecord, Stages
  <2>10. JobMoves(b, "rotate", "sync", {})
    BY <2>2, <2>5, <2>9, JobSet, Zenon DEF Callers
  <2> QED
    BY <1>2, <2>1, <2>2, <2>4, <2>5, <2>7, <2>8, <2>10, Zenon DEF Rotates, NewTime
<1> QED
  BY <1>1, <1>2, Zenon

(***************************************************************************)
(* What each step of writeBlock does to its job and to its block.           *)
(***************************************************************************)
LEMMA JobSteps ==
  ASSUME BlockTypes, JobInv, NEW b \in Blocks, NEW by \in Callers
  PROVE  /\ SyncBlock(b, by) =>
                \/ JobMoves(b, by, "serialize", jobs[b][by].rows)
                \/ JobMoves(b, by, "drop", jobs[b][by].rows) /\ b \in lost'
         /\ Serialize(b, by) =>
                /\ JobMoves(b, by, "upload", blocks[b].parts)
                /\ PartsSet(b, {})
                /\ b \in DOMAIN blocks
         /\ Upload(b, by) => JobMoves(b, by, "drop", {})
         /\ UploadFails(b, by) => JobMoves(b, by, "drop", jobs[b][by].rows)
         /\ SerializeFails(b, by) => JobMoves(b, by, "delete", jobs[b][by].rows)
         /\ DeleteFile(b, by) => JobMoves(b, by, "drop", jobs[b][by].rows)
         /\ dropPendingBlock(b, by) => JobMoves(b, by, "wait", jobs[b][by].rows)
         /\ Dropped(b, by) => JobMoves(b, by, "done", {})
<1> USE DEF JobInv
<1>1. /\ "drop" \in Stages /\ "serialize" \in Stages /\ "delete" \in Stages /\ "wait" \in Stages
      /\ jobs[b][by] \in JobRecord
  BY Zenon DEF Stages, JobTypes
<1>2. SyncBlock(b, by) => \/ JobMoves(b, by, "serialize", jobs[b][by].rows)
                          \/ JobMoves(b, by, "drop", jobs[b][by].rows) /\ b \in lost'
  BY <1>1, JobStage, Zenon DEF SyncBlock
<1>3. ASSUME Serialize(b, by)
      PROVE  /\ JobMoves(b, by, "upload", blocks[b].parts)
             /\ PartsSet(b, {})
             /\ b \in DOMAIN blocks
  <2>1. b \in DOMAIN blocks
    BY <1>3, Zenon DEF Serialize
  <2>2. blocks[b] \in BlockRecord
    BY <2>1, SeqElement DEF BlockTypes
  <2> DEFINE j == [jobs[b][by] EXCEPT !.stage = "upload", !.rows = blocks[b].parts]
  <2>3. j \in JobRecord /\ j.stage = "upload" /\ j.rows = blocks[b].parts
    BY <1>1, <2>2, Zenon DEF JobRecord, BlockRecord, Stages
  <2>4. jobs' = [jobs EXCEPT ![b][by] = j]
    BY <1>3, Zenon DEF Serialize
  <2> HIDE DEF j
  <2>5. JobMoves(b, by, "upload", blocks[b].parts)
    BY <2>3, <2>4, JobSet, Zenon
  <2>6. PartsSet(b, {})
    BY <1>3, <2>1, Parts, Zenon DEF Serialize
  <2> QED
    BY <2>1, <2>5, <2>6, Zenon
<1>4. ASSUME NEW s \in Stages, jobs' = [jobs EXCEPT ![b][by] = [NoJob EXCEPT !.stage = s]]
      PROVE  JobMoves(b, by, s, {})
  <2> DEFINE j == [NoJob EXCEPT !.stage = s]
  <2>1. j \in JobRecord /\ j.stage = s /\ j.rows = {}
    BY Zenon DEF NoJob, JobRecord
  <2> HIDE DEF j
  <2>2. jobs' = [jobs EXCEPT ![b][by] = j]
    BY <1>4, Zenon DEF j
  <2> QED
    BY <2>1, <2>2, JobSet, Zenon
<1>5. Upload(b, by) => JobMoves(b, by, "drop", {})
  BY <1>1, <1>4, Zenon DEF Upload
<1>6. UploadFails(b, by) => JobMoves(b, by, "drop", jobs[b][by].rows)
  BY <1>1, JobStage, Zenon DEF UploadFails
<1>7. SerializeFails(b, by) => JobMoves(b, by, "delete", jobs[b][by].rows)
  BY <1>1, JobStage, Zenon DEF SerializeFails
<1>8. DeleteFile(b, by) => JobMoves(b, by, "drop", jobs[b][by].rows)
  BY <1>1, JobStage, Zenon DEF DeleteFile
<1>9. dropPendingBlock(b, by) => JobMoves(b, by, "wait", jobs[b][by].rows)
  BY <1>1, JobStage, Zenon DEF dropPendingBlock
<1>10. Dropped(b, by) => JobMoves(b, by, "done", {})
  BY <1>4, Zenon DEF Dropped, Stages
<1> QED
  BY <1>2, <1>3, <1>5, <1>6, <1>7, <1>8, <1>9, <1>10, Zenon

\* InsertRecord adds the write to its block, which nobody has begun to write.
LEMMA InsertStep ==
  ASSUME BlockTypes, WriterTypes, SealInv, NEW w \in Writes, InsertRecord(w)
  PROVE  /\ wblock[w] \in DOMAIN blocks
         /\ PartsSet(wblock[w], blocks[wblock[w]].parts \union {w})
<1>1. wblock[w] \in DOMAIN blocks
  BY Zenon DEF InsertRecord, SealInv, Holds
<1>3. blocks[wblock[w]].parts \union {w} \in SUBSET Writes
  BY <1>1, BlockFacts, Zenon
<1>4. blocks' = [blocks EXCEPT ![wblock[w]].parts = blocks[wblock[w]].parts \union {w}]
  BY Zenon DEF InsertRecord
<1> QED
  BY <1>1, <1>3, <1>4, Parts, Zenon

\* Close hands the active block to writeBlock.
LEMMA CloseStep ==
  ASSUME BlockTypes, JobInv, CloseWrites
  PROVE  JobMoves(active, "close", "sync", {}) /\ active \in Blocks
<1>1. active \in Blocks
  BY BlockFacts, Zenon
<1>2. Job(FALSE) \in JobRecord /\ Job(FALSE).stage = "sync" /\ Job(FALSE).rows = {}
  BY Zenon DEF Job, NoJob, JobRecord, Stages
<1> QED
  BY <1>1, <1>2, JobSet, Zenon DEF CloseWrites, JobInv, Callers

(***************************************************************************)
(* Stages only advance: a job that exists goes on existing.                 *)
(***************************************************************************)
LEMMA WriteBlockMoves ==
  ASSUME BlockTypes, JobInv, NEW b \in Blocks, NEW by \in Callers, writeBlock(b, by)
  PROVE  /\ Stage(b, by) \notin {"none", "done"}
         /\ b \in DOMAIN blocks
         /\ \E s \in Stages \ {"none", "sync"}, ws \in SUBSET Writes : JobMoves(b, by, s, ws)
<1>1. Stage(b, by) \notin {"none", "done"}
  BY Zenon DEF writeBlock, SyncBlock, Serialize, Upload, UploadFails, SerializeFails, DeleteFile,
         dropPendingBlock, Dropped
<1>2. b \in DOMAIN blocks
  BY <1>1, Zenon DEF JobInv
<1>3. jobs[b][by].rows \in SUBSET Writes
  BY Zenon DEF JobInv, JobTypes, JobRecord
<1>4. blocks[b].parts \in SUBSET Writes
  BY <1>2, BlockFacts, Zenon
<1>5. {"serialize", "drop", "upload", "delete", "wait", "done"} = Stages \ {"none", "sync"}
  BY Zenon DEF Stages
<1> QED
  BY <1>1, <1>2, <1>3, <1>4, <1>5, JobSteps, Zenon DEF writeBlock
-----------------------------------------------------------------------------
\* The parts about types and about the table lock are preserved.

\* Blocks are only added; one that is added is active, the one before pending.
LEMMA BlockTypesStep ==
  ASSUME IInv, Next
  PROVE  BlockTypes'
<1> USE DEF IInv
<1>1. ASSUME NEW b, Rotates(b), UNCHANGED closing
      PROVE  BlockTypes'
  BY <1>1 DEF Rotates, BlockTypes
<1>2. ASSUME NEW b, NEW ws, PartsSet(b, ws), UNCHANGED <<active, pendingBlocks, closing, clock>>
      PROVE  BlockTypes'
  BY <1>2, Zenon DEF PartsSet, BlockTypes
<1>3. CASE UNCHANGED <<blocks, active, pendingBlocks, closing, clock>>
  BY <1>3, Zenon DEF BlockTypes
<1>4. ASSUME NEW w \in Writes, Write(w)
      PROVE  BlockTypes'
  <2>1. CASE RotateFull(w)
    BY <1>1, <1>3, <2>1, Rotation, Zenon DEF RotateFull, JobInv
  <2>2. CASE InsertRecord(w)
    BY <1>2, <2>2, InsertStep, Zenon DEF InsertRecord
  <2>3. CASE appender(w) \/ BeginWrite(w) \/ FinishWrite(w)
    BY <1>3, <2>3, Zenon DEF appender, BeginWrite, FinishWrite, tableVars
  <2> QED
    BY <1>4, <2>1, <2>2, <2>3, Zenon DEF Write
<1>5. ASSUME NEW b \in Blocks, NEW by \in Callers, writeBlock(b, by)
      PROVE  BlockTypes'
  <2>1. CASE Serialize(b, by)
    BY <1>2, <2>1, JobSteps, Zenon DEF Serialize
  <2>2. CASE dropPendingBlock(b, by)
    BY <2>2, Zenon DEF dropPendingBlock, BlockTypes
  <2>3. CASE UNCHANGED tableVars \/ Dropped(b, by)
    BY <1>3, <2>3, Zenon DEF tableVars, Dropped
  <2> QED
    BY <1>5, <2>1, <2>2, <2>3, Zenon
    DEF writeBlock, SyncBlock, Upload, UploadFails, SerializeFails, DeleteFile
<1>6. ASSUME NEW r \in Readers, Read(r)
      PROVE  BlockTypes'
  BY <1>3, <1>6, ReadFrame, Zenon DEF tableVars
<1>7. CASE Rotate
  BY <1>1, <1>3, <1>7, Rotation, Zenon DEF Rotate, JobInv
<1>8. CASE Close
  BY <1>8, CloseFrame, Zenon
     DEF Close, close, CloseWaited, CloseWrites, dropStorage, tableVars, BlockTypes
<1> QED
  BY <1>4, <1>5, <1>6, <1>7, <1>8, Zenon DEF Next, Callers

\* Every block but the active one has been handed to writeBlock (RotateBlock).
LEMMA JobInvStep ==
  ASSUME IInv, Next
  PROVE  JobInv'
<1> USE DEF IInv
<1>1. ASSUME NEW b, Rotates(b), UNCHANGED bucket
      PROVE  JobInv'
  <2>1. \A c \in Blocks, d \in Callers : Stage(c, d)' # "none" => c = b \/ Stage(c, d) # "none"
    BY <1>1, Zenon DEF Rotates, JobMoves, Stage
  <2>2. \A c \in Blocks : Stage(c, "rotate") # "none" \/ c = b => Stage(c, "rotate")' # "none"
    BY <1>1, Zenon DEF Rotates, JobMoves, Stage, Callers
  <2>3. DOMAIN blocks' = DOMAIN blocks \union {active'} /\ active = b /\ JobTypes'
    BY <1>1, Zenon DEF Rotates, JobMoves
  <2> QED
    BY <1>1, <2>1, <2>2, <2>3, BlockFacts, Zenon DEF JobInv, BlockTypes
<1>2. ASSUME NEW b \in DOMAIN blocks, NEW by \in Callers, NEW s \in Stages \ {"none"}, NEW ws,
             JobMoves(b, by, s, ws),
             DOMAIN blocks' = DOMAIN blocks, UNCHANGED active,
             DOMAIN bucket' \subseteq DOMAIN bucket \union {b}
      PROVE  JobInv'
  BY <1>2, BlockFacts, Zenon DEF JobMoves, Stage, Callers, JobInv
<1>3. CASE UNCHANGED <<jobs, active, bucket>> /\ DOMAIN blocks' = DOMAIN blocks
  BY <1>3, Zenon DEF JobInv, JobTypes, Stage
<1>4. ASSUME NEW w \in Writes, Write(w)
      PROVE  JobInv'
  <2>1. CASE RotateFull(w)
    BY <1>1, <1>3, <2>1, Rotation, Zenon DEF RotateFull, JobInv
  <2>2. CASE InsertRecord(w)
    BY <1>3, <2>2, InsertStep, Zenon DEF InsertRecord, PartsSet, storeVars
  <2>3. CASE appender(w) \/ BeginWrite(w) \/ FinishWrite(w)
    BY <1>3, <2>3, Zenon DEF appender, BeginWrite, FinishWrite, tableVars, storeVars
  <2> QED
    BY <1>4, <2>1, <2>2, <2>3, Zenon DEF Write
<1>5. ASSUME NEW b \in Blocks, NEW by \in Callers, writeBlock(b, by)
      PROVE  JobInv'
  <2>1. DOMAIN blocks' = DOMAIN blocks
    BY <1>5, JobSteps, Zenon
       DEF writeBlock, SyncBlock, Upload, UploadFails, SerializeFails, DeleteFile,
                          dropPendingBlock, Dropped, tableVars, PartsSet
  <2>2. DOMAIN bucket' \subseteq DOMAIN bucket \union {b}
    BY <1>5, Zenon DEF writeBlock, SyncBlock, Serialize, Upload, UploadFails, SerializeFails, DeleteFile,
                dropPendingBlock, Dropped
  <2> QED
    BY <1>2, <1>5, <2>1, <2>2, WriteBlockMoves, WriteBlockFrame, Zenon
<1>6. ASSUME NEW r \in Readers, Read(r)
      PROVE  JobInv'
  BY <1>3, <1>6, ReadFrame, Zenon DEF tableVars, storeVars
<1>7. CASE Rotate
  BY <1>1, <1>3, <1>7, Rotation, Zenon DEF Rotate, JobInv
<1>8. CASE Close
  <2>1. CASE CloseWrites
    BY <1>2, <1>8, <2>1, CloseStep, CloseFrame, Zenon DEF BlockTypes, Stages, Callers
  <2>2. CASE close \/ CloseWaited \/ dropStorage
    BY <1>3, <1>8, <2>2, CloseFrame, Zenon DEF close, CloseWaited, dropStorage
  <2> QED
    BY <1>8, <2>1, <2>2, Zenon DEF Close
<1> QED
  BY <1>4, <1>5, <1>6, <1>7, <1>8, Zenon DEF Next, Callers

\* Types of the writers' state.
LEMMA WriterTypesStep ==
  ASSUME IInv, Next
  PROVE  WriterTypes'
<1> USE DEF IInv
<1>1. CASE UNCHANGED writerVars
  BY <1>1, Zenon DEF writerVars, WriterTypes
<1>2. ASSUME NEW w \in Writes, Write(w)
      PROVE  WriterTypes'
  <2>1. CASE appender(w)
    BY <2>1, BlockFacts, Zenon DEF appender, WriterGoes, WriterTypes, BlockTypes
  <2>2. CASE RotateFull(w)
    BY <2>2, Zenon DEF RotateFull, WriterGoes, WriterTypes
  <2>3. CASE BeginWrite(w)
    BY <2>3 DEF BeginWrite, WriterGoes, WriterTypes
  <2>4. CASE InsertRecord(w)
    BY <2>4, Zenon DEF InsertRecord, WriterGoes, WriterTypes
  <2>5. CASE FinishWrite(w)
    BY <2>5, Zenon DEF FinishWrite, WriterGoes, WriterTypes
  <2> QED
    BY <1>2, <2>1, <2>2, <2>3, <2>4, <2>5, Zenon DEF Write
<1>3. CASE Rotate
  BY <1>1, <1>3, Zenon DEF Rotate
<1> QED
  BY <1>1, <1>2, <1>3, WriteBlockFrame, ReadFrame, CloseFrame, Zenon DEF Next, Callers

\* The blocks that memoryBlocks pins, and the least of their times.
LEMMA Pins ==
  ASSUME Ordered, BlockTypes
  PROVE  LET bs   == {active} \union pendingBlocks
             last == LastReadBlockTimestamp(bs)
         IN  /\ bs \subseteq DOMAIN blocks
             /\ last \in Nat
             /\ \A b \in bs : last <= blocks[b].time
             /\ \E b \in bs : last = blocks[b].time
<1> DEFINE bs == {active} \union pendingBlocks
           S  == {blocks[b].time : b \in bs}
<1>1. bs \subseteq DOMAIN blocks
  BY Zenon DEF BlockTypes
<1>2. S \in SUBSET Nat /\ S # {}
  BY <1>1, BlockFacts, Zenon
<1>3. Min(S) \in S /\ \A y \in S : Min(S) <= y
  BY <1>2, MinNat, Zenon
<1>4. LastReadBlockTimestamp(bs) = Min(S)
  BY Zenon DEF LastReadBlockTimestamp
<1> HIDE DEF S
<1>5. LastReadBlockTimestamp(bs) \in Nat
  BY <1>2, <1>3, <1>4, Zenon
<1> QED
  BY <1>1, <1>3, <1>4, <1>5, Zenon DEF S

\* What Passed does: it counts each write that it names once more.
LEMMA PassedTypes ==
  ASSUME ReaderTypes, NEW r \in Readers, NEW ws, Passed(r, ws)
  PROVE  /\ seen' \in [Readers -> [Writes -> Nat]]
         /\ \A w \in Writes : seen'[r][w] = IF w \in ws THEN seen[r][w] + 1 ELSE seen[r][w]
         /\ \A q \in Readers : q # r => seen'[q] = seen[q]
<1> DEFINE s == [w \in Writes |-> seen[r][w] + (IF w \in ws THEN 1 ELSE 0)]
<1>1. seen' = [seen EXCEPT ![r] = s]
  BY Zenon DEF Passed
<1>2. seen[r] \in [Writes -> Nat]
  BY Zenon DEF ReaderTypes
<1>3. s \in [Writes -> Nat]
  BY <1>2
<1>4. \A w \in Writes : s[w] = IF w \in ws THEN seen[r][w] + 1 ELSE seen[r][w]
  BY <1>2
<1> HIDE DEF s
<1> QED
  BY <1>1, <1>3, <1>4, Zenon DEF ReaderTypes

\* Types of the readers' state.
LEMMA ReaderTypesStep ==
  ASSUME Ordered, IInv, Next
  PROVE  ReaderTypes'
<1> USE DEF IInv
<1>1. CASE UNCHANGED readerVars
  BY <1>1, Zenon DEF readerVars, ReaderTypes
<1>2. ASSUME NEW r \in Readers, Read(r)
      PROVE  ReaderTypes'
  <2>1. CASE View(r)
    <3>1. Watermark \in Nat
      <4> DEFINE S == {n \in 0 .. tx : 1 .. n \subseteq committed}
      <4>1. S \in SUBSET (0 .. tx) /\ 0 \in S /\ tx \in Nat
        BY DEF WriterTypes
      <4>2. Max(S) \in S
        BY <4>1, MaxNat, Zenon
      <4> QED
        BY <4>1, <4>2 DEF Watermark
    <3> QED
      BY <2>1, <3>1, Zenon DEF View, ReaderGoes, ReaderTypes
  <2>2. CASE memoryBlocks(r)
    <3> DEFINE bs   == {active} \union pendingBlocks
               last == LastReadBlockTimestamp(bs)
    <3>1. bs \in SUBSET Nat /\ last \in Nat
      BY Pins, BlockFacts, Zenon
    <3>2. /\ pinned' = [pinned EXCEPT ![r] = bs]
          /\ unread' = [unread EXCEPT ![r] = bs]
          /\ lastBlock' = [lastBlock EXCEPT ![r] = last]
          /\ rpc' = [rpc EXCEPT ![r] = "scan"]
          /\ \E h \in SUBSET Writes : hidden' = [hidden EXCEPT ![r] = h]
          /\ UNCHANGED <<rtx, files, seen>>
      BY <2>2, Zenon DEF memoryBlocks, ReaderGoes, Visible
    <3> HIDE DEF bs, last
    <3> QED
      BY <3>1, <3>2, Zenon DEF ReaderTypes
  <2>3. ASSUME NEW b \in Blocks, ScanBlock(r, b)
        PROVE  ReaderTypes'
    <3>1. \E h \in SUBSET Writes : hidden' = [hidden EXCEPT ![r] = h]
      <4> DEFINE h == hidden[r] \union {w \in Visible(r) : wblock[w] = b /\ Emptied(b)}
      <4>1. h \in SUBSET Writes
        BY Zenon DEF Visible, ReaderTypes
      <4>2. hidden' = [hidden EXCEPT ![r] = h]
        BY <2>3, Zenon DEF ScanBlock
      <4> QED
        BY <4>1, <4>2, Zenon
    <3>2. /\ \E ws : Passed(r, ws)
          /\ unread' = [unread EXCEPT ![r] = @ \ {b}]
          /\ UNCHANGED <<rpc, rtx, pinned, lastBlock, files>>
      BY <2>3, Zenon DEF ScanBlock
    <3>3. seen' \in [Readers -> [Writes -> Nat]]
      BY <3>2, PassedTypes, Zenon
    <3> QED
      BY <3>1, <3>2, <3>3, Zenon DEF ReaderTypes
  <2>4. CASE ScanSource(r)
    BY <2>4, BlockFacts, Zenon DEF ScanSource, JobInv, ReaderGoes, ReaderTypes
  <2>5. ASSUME NEW b \in Blocks, ProcessFile(r, b)
        PROVE  ReaderTypes'
    <3>1. seen' \in [Readers -> [Writes -> Nat]]
      BY <2>5, PassedTypes, Zenon DEF ProcessFile, ReaderTypes
    <3>2. rpc[r] = "files" /\ UNCHANGED <<rtx, unread, hidden>>
      BY <2>5, Zenon DEF ProcessFile
    <3>3. CASE Unpin(r, "failed")
      BY <3>1, <3>2, <3>3, Zenon DEF Unpin, ReaderGoes, ReaderTypes
    <3>4. CASE files' = [files EXCEPT ![r] = @ \ {b}] /\ UNCHANGED <<rpc, pinned, lastBlock>>
      BY <3>1, <3>2, <3>4, Zenon DEF ReaderTypes
    <3> QED
      BY <2>5, <3>3, <3>4, Zenon DEF ProcessFile
  <2>6. CASE ReadReturns(r)
    BY <2>6, Zenon DEF ReadReturns, Unpin, ReaderGoes, ReaderTypes
  <2> QED
    BY <1>2, <2>1, <2>2, <2>3, <2>4, <2>5, <2>6, Zenon DEF Read
<1>3. CASE Rotate
  BY <1>1, <1>3, Zenon DEF Rotate
<1> QED
  BY <1>1, <1>2, <1>3, WriteFrame, WriteBlockFrame, CloseFrame, Zenon DEF Next, Callers

\* A wait with the lock held ends before anybody else gets the lock.
LEMMA LockInvStep ==
  ASSUME IInv, Next
  PROVE  LockInv'
<1> USE DEF IInv
<1>1. ASSUME UNCHANGED lock, lock = Nobody, cpc' = "waiting" <=> cpc = "waiting",
             \A c \in Blocks, d \in Callers : Stage(c, d)' = "wait" => Stage(c, d) = "wait"
      PROVE  LockInv'
  BY <1>1, Zenon DEF LockInv, Nobody
<1>2. CASE UNCHANGED <<lock, jobs, cpc>>
  BY <1>2, Zenon DEF LockInv, Stage
<1>3. ASSUME NEW b, Rotates(b), Free, UNCHANGED <<lock, cpc>>
      PROVE  LockInv'
  BY <1>1, <1>3, Zenon DEF Rotates, JobMoves, Stage, Free
<1>4. ASSUME NEW w \in Writes, Write(w)
      PROVE  LockInv'
  <2>1. CASE RotateFull(w)
    BY <1>2, <1>3, <2>1, Rotation, Zenon DEF RotateFull, JobInv
  <2>2. CASE appender(w) \/ BeginWrite(w) \/ InsertRecord(w) \/ FinishWrite(w)
    BY <1>2, <2>2, Zenon DEF appender, BeginWrite, InsertRecord, FinishWrite, tableVars, storeVars
  <2> QED
    BY <1>4, <2>1, <2>2, Zenon DEF Write
<1>5. ASSUME NEW b \in Blocks, NEW by \in Callers, writeBlock(b, by)
      PROVE  LockInv'
  <2>1. CASE dropPendingBlock(b, by)
    <3>1. JobMoves(b, by, "wait", jobs[b][by].rows)
      BY <2>1, JobSteps, Zenon
    <3>2. lock = Nobody /\ lock' = <<b, by>> /\ cpc' = cpc
      BY <2>1, Zenon DEF dropPendingBlock, Free
    <3>3. \A c \in Blocks, d \in Callers : Stage(c, d)' = "wait" => c = b /\ d = by
      BY <3>1, <3>2 DEF JobMoves, Stage, LockInv, Nobody
    <3>4. Stage(b, by)' = "wait"
      BY <3>1, Zenon DEF JobMoves, Stage
    <3>5. lock' # Closer /\ cpc # "waiting"
      BY <3>2, TableAssumption DEF LockInv, Closer, Nobody, Blocks, TableAssumption
    <3> QED
      BY <3>2, <3>3, <3>4, <3>5, Zenon DEF LockInv
  <2>2. CASE Dropped(b, by)
    <3>1. JobMoves(b, by, "done", {})
      BY <2>2, JobSteps, Zenon
    <3>2. lock = <<b, by>> /\ lock' = Nobody /\ cpc' = cpc
      BY <2>2, Zenon DEF Dropped, LockInv
    <3>3. \A c \in Blocks, d \in Callers : Stage(c, d)' # "wait"
      BY <3>1, <3>2 DEF JobMoves, Stage, LockInv
    <3>4. lock # Closer /\ Nobody # Closer
      BY <3>2, TableAssumption DEF Closer, Nobody, Blocks, TableAssumption
    <3> QED
      BY <3>2, <3>3, <3>4, Zenon DEF LockInv
  <2>3. ASSUME NEW s, s # "wait", NEW ws, JobMoves(b, by, s, ws), Stage(b, by) # "wait", UNCHANGED <<lock, cpc>>
        PROVE  LockInv'
    BY <2>3 DEF JobMoves, Stage, LockInv
  <2>4. CASE SyncBlock(b, by) \/ Serialize(b, by) \/ Upload(b, by)
    BY <2>3, <2>4, JobSteps, Zenon DEF SyncBlock, Serialize, Upload, tableVars
  <2>5. CASE UploadFails(b, by) \/ SerializeFails(b, by) \/ DeleteFile(b, by)
    BY <2>3, <2>5, JobSteps, Zenon DEF UploadFails, SerializeFails, DeleteFile, tableVars
  <2> QED
    BY <1>5, <2>1, <2>2, <2>4, <2>5, Zenon DEF writeBlock
<1>6. ASSUME NEW r \in Readers, Read(r)
      PROVE  LockInv'
  BY <1>2, <1>6, ReadFrame, Zenon DEF tableVars, storeVars
<1>7. CASE Rotate
  BY <1>2, <1>3, <1>7, Rotation, Zenon DEF Rotate, JobInv
<1>8. CASE Close
  <2>1. CASE close
    BY <2>1, Zenon DEF close, CloserGoes, Free, LockInv, Nobody, Closer, Stage
  <2>2. CASE CloseWaited
    BY <2>2, TableAssumption DEF CloseWaited, CloserGoes, LockInv, Closer, Blocks, TableAssumption,
         Stage, Nobody
  <2>3. CASE CloseWrites
    <3>1. \A c \in Blocks, d \in Callers : Stage(c, d)' = "wait" => Stage(c, d) = "wait"
      BY <2>3, CloseStep, Zenon DEF JobMoves, Stage
    <3> QED
      BY <1>1, <2>3, <3>1, Zenon DEF CloseWrites, CloserGoes, Free, tableVars
  <2>4. CASE dropStorage
    BY <2>4, Zenon DEF dropStorage, CloserGoes, tableVars, LockInv, Stage
  <2> QED
    BY <1>8, <2>1, <2>2, <2>3, <2>4, Zenon DEF Close
<1> QED
  BY <1>4, <1>5, <1>6, <1>7, <1>8, Zenon DEF Next, Callers
-----------------------------------------------------------------------------
\* No writer gets hold of a block that writeBlock has waited for.
LEMMA SealInvStep ==
  ASSUME IInv, Next
  PROVE  SealInv'
<1> USE DEF IInv
<1> DEFINE Fewer == \A c \in Blocks : PendingWriters(c)' \subseteq PendingWriters(c)
           Kept  == \A w \in Writes : wpc'[w] \in Holds \union {"rotate"} => wblock'[w] \in DOMAIN blocks'
<1>1. ASSUME Fewer, Kept, UNCHANGED <<jobs, active, closing, cpc>>
      PROVE  SealInv'
  BY <1>1, Zenon DEF SealInv, Sealed, Stage
<1>2. ASSUME UNCHANGED <<wpc, wblock>>, DOMAIN blocks \subseteq DOMAIN blocks'
      PROVE  Fewer /\ Kept
  BY <1>2, Zenon DEF PendingWriters, SealInv
<1>3. ASSUME NEW b, Rotates(b), Fewer, Kept, UNCHANGED <<closing, cpc>>
      PROVE  SealInv'
  <2>1. active' \notin DOMAIN blocks /\ active' \in Blocks /\ b \in Blocks
    BY <1>3, Zenon DEF Rotates
  <2>2. Stage(active, "rotate")' = "none"
    BY <1>3, <2>1, Zenon DEF JobInv, Callers, Stage, Rotates, JobMoves, BlockTypes
  <2>3. \A c \in Blocks, d \in Callers :
            Stage(c, d)' \notin {"none", "sync"} => Stage(c, d) \notin {"none", "sync"}
    BY <1>3 DEF Rotates, JobMoves, Stage
  <2>4. \A c \in Blocks : Stage(c, "close")' = Stage(c, "close")
    BY <1>3, Zenon DEF Rotates, JobMoves, Stage, Callers
  <2> QED
    BY <1>3, <2>1, <2>2, <2>3, <2>4, Zenon DEF SealInv, Sealed, Callers
<1>4. ASSUME NEW w \in Writes, Write(w)
      PROVE  SealInv'
  <2>1. CASE appender(w)
    <3>1. CASE closing
      BY <1>1, <2>1, <3>1, Zenon DEF appender, WriterGoes, WriterTypes, PendingWriters, Holds, SealInv,
           tableVars, storeVars
    <3>2. CASE ~closing
      <4>1. /\ \A c \in Blocks : PendingWriters(c)' \subseteq PendingWriters(c) \/ c = active
            /\ Kept
        BY <2>1, <3>2, Zenon DEF appender, WriterGoes, WriterTypes, PendingWriters, Holds, SealInv,
                          tableVars, BlockTypes
      <4>2. Stage(active, "rotate") = "none" /\ Stage(active, "close") = "none"
        BY <3>2, BlockFacts, Zenon DEF SealInv
      <4>3. UNCHANGED <<jobs, active, closing, cpc>>
        BY <2>1, Zenon DEF appender, tableVars, storeVars
      <4> QED
        BY <4>1, <4>2, <4>3, Zenon DEF SealInv, Sealed, Stage
    <3> QED
      BY <3>1, <3>2, Zenon
  <2>2. CASE RotateFull(w)
    <3>1. Rotates(wblock[w]) \/ UNCHANGED <<blocks, active, pendingBlocks, clock, jobs>>
      BY <2>2, Rotation, Zenon DEF RotateFull, JobInv
    <3>2. DOMAIN blocks \subseteq DOMAIN blocks'
      BY <3>1, Zenon DEF Rotates
    <3>3. Fewer /\ Kept
      BY <2>2, <3>2, Zenon DEF RotateFull, WriterGoes, WriterTypes, PendingWriters, Holds, SealInv
    <3> QED
      BY <1>1, <1>3, <2>2, <3>1, <3>3, Zenon DEF RotateFull
  <2>3. CASE BeginWrite(w)
    BY <1>1, <2>3, Zenon DEF BeginWrite, WriterGoes, WriterTypes, PendingWriters, Holds, SealInv,
         tableVars, storeVars
  <2>4. CASE InsertRecord(w)
    BY <1>1, <2>4, InsertStep, Zenon DEF PartsSet, InsertRecord, WriterGoes, WriterTypes, PendingWriters,
         Holds, SealInv, storeVars
  <2>5. CASE FinishWrite(w)
    BY <1>1, <2>5, Zenon DEF FinishWrite, WriterGoes, WriterTypes, PendingWriters, Holds, SealInv,
         tableVars, storeVars
  <2> QED
    BY <1>4, <2>1, <2>2, <2>3, <2>4, <2>5, Zenon DEF Write
<1>5. ASSUME NEW b \in Blocks, NEW by \in Callers, writeBlock(b, by)
      PROVE  SealInv'
  <2>1. /\ Stage(b, by) # "none"
        /\ \E s \in Stages \ {"none", "sync"}, ws \in SUBSET Writes : JobMoves(b, by, s, ws)
    BY <1>5, WriteBlockMoves, Zenon
  <2>2. UNCHANGED <<active, closing, cpc, wpc, wblock>>
    BY <1>5, WriteBlockFrame, Zenon DEF writerVars
  <2>3. DOMAIN blocks' = DOMAIN blocks
    BY <1>5, JobSteps, Zenon
       DEF writeBlock, SyncBlock, Upload, UploadFails, SerializeFails, DeleteFile,
                          dropPendingBlock, Dropped, tableVars, PartsSet
  <2>4. PendingWriters(b) = {}
    BY <1>5, Zenon DEF SyncBlock, Synced, SealInv, Sealed, Callers, writeBlock, Serialize, Upload,
         UploadFails, SerializeFails, DeleteFile, dropPendingBlock, Dropped
  <2>5. Fewer /\ Kept
    BY <1>2, <2>2, <2>3, Zenon
  <2>6. \A c \in Blocks, d \in Callers : Stage(c, d)' # Stage(c, d) => c = b /\ d = by
    BY <2>1, Zenon DEF JobMoves, Stage
  <2> QED
    BY <2>1, <2>2, <2>4, <2>5, <2>6, BlockFacts, Zenon DEF SealInv, Sealed, Callers, Stage
<1>6. ASSUME NEW r \in Readers, Read(r)
      PROVE  SealInv'
  BY <1>1, <1>2, <1>6, ReadFrame, Zenon DEF tableVars, storeVars, writerVars
<1>7. CASE Rotate
  <2>1. Rotates(active) \/ UNCHANGED <<blocks, active, pendingBlocks, clock, jobs>>
    BY <1>7, Rotation, Zenon DEF Rotate, JobInv
  <2>2. Fewer /\ Kept
    BY <1>2, <1>7, <2>1, Zenon DEF Rotate, writerVars, Rotates
  <2> QED
    BY <1>1, <1>3, <1>7, <2>1, <2>2, Zenon DEF Rotate
<1>8. CASE Close
  <2>1. Fewer /\ Kept /\ UNCHANGED active
    BY <1>2, <1>8, CloseFrame, Zenon DEF writerVars
  <2>2. CASE close
    BY <2>1, <2>2, Zenon DEF close, CloserGoes, SealInv, Sealed, Stage
  <2>3. CASE CloseWaited
    BY <2>1, <2>3, Zenon DEF CloseWaited, CloserGoes, SealInv, Sealed, Stage
  <2>4. CASE CloseWrites
    <3>1. closing /\ closing' = closing /\ cpc' = "writing"
      BY <2>4, Zenon DEF CloseWrites, CloserGoes, SealInv, tableVars
    <3>2. \A c \in Blocks, d \in Callers :
              Stage(c, d)' \notin {"none", "sync"} => Stage(c, d) \notin {"none", "sync"}
      BY <2>4, CloseStep, Zenon DEF JobMoves, Stage
    <3>3. Stage(active, "rotate")' = "none"
      BY <2>1, <2>4, CloseStep, Zenon DEF JobMoves, Stage, SealInv, Callers
    <3> QED
      BY <2>1, <3>1, <3>2, <3>3, Zenon DEF SealInv, Sealed, Callers
  <2>5. CASE dropStorage
    BY <2>1, <2>5, Zenon DEF dropStorage, CloserGoes, tableVars, SealInv, Sealed, Stage
  <2> QED
    BY <1>8, <2>2, <2>3, <2>4, <2>5, Zenon DEF Close
<1> QED
  BY <1>4, <1>5, <1>6, <1>7, <1>8, Zenon DEF Next, Callers

\* A write that is in its block keeps its block and its transaction.
LEMMA Settled ==
  ASSUME IInv, Next
  PROVE  \A w \in Writes :
             /\ wpc[w] \in {"commit", "done"} =>
                    /\ wpc'[w] \in {"commit", "done"}
                    /\ wblock'[w] = wblock[w]
             /\ wpc[w] = "done" => wpc'[w] = "done" /\ wtx'[w] = wtx[w]
<1> USE DEF IInv
<1>1. ASSUME NEW w \in Writes, Write(w)
      PROVE  \A v \in Writes :
             /\ wpc[v] \in {"commit", "done"} =>
                    /\ wpc'[v] \in {"commit", "done"}
                    /\ wblock'[v] = wblock[v]
             /\ wpc[v] = "done" => wpc'[v] = "done" /\ wtx'[v] = wtx[v]
  BY <1>1, Zenon
     DEF Write, appender, RotateFull, BeginWrite, InsertRecord, FinishWrite, WriterGoes,
              WriterTypes
<1>2. CASE UNCHANGED writerVars
  BY <1>2, Zenon DEF writerVars
<1>3. CASE Rotate
  BY <1>2, <1>3, Zenon DEF Rotate
<1> QED
  BY <1>1, <1>2, <1>3, WriteBlockFrame, ReadFrame, CloseFrame, Zenon DEF Next, Callers

\* Records move from a block to its upload and to its file, and nowhere else.
LEMMA HomeInvStep ==
  ASSUME IInv, Next
  PROVE  HomeInv'
<1> USE DEF IInv
<1>0. \A b, w : Lives(w, b) => Lives(w, b)'
  BY Settled, Zenon DEF Lives
<1>1. CASE UNCHANGED <<blocks, jobs, bucket>>
  BY <1>0, <1>1, Zenon DEF HomeInv
<1>2. ASSUME NEW b, Rotates(b), UNCHANGED bucket
      PROVE  HomeInv'
  <2>1. /\ DOMAIN blocks' = DOMAIN blocks \union {active'} /\ blocks'[active'].parts = {}
        /\ \A c \in DOMAIN blocks : blocks'[c] = blocks[c]
        /\ \A c \in Blocks, d \in Callers : jobs'[c][d].rows \in {{}, jobs[c][d].rows}
    BY <1>2 DEF Rotates, JobMoves
  <2> QED
    BY <1>0, <1>2, <2>1, Zenon DEF HomeInv
<1>3. ASSUME NEW w \in Writes, Write(w)
      PROVE  HomeInv'
  <2>1. CASE RotateFull(w)
    BY <1>1, <1>2, <2>1, Rotation, Zenon DEF RotateFull, JobInv
  <2>2. CASE InsertRecord(w)
    <3>1. PartsSet(wblock[w], blocks[wblock[w]].parts \union {w}) /\ wblock[w] \in DOMAIN blocks
      BY <2>2, InsertStep, Zenon
    <3>2. Lives(w, wblock[w])'
      BY <2>2, Zenon DEF InsertRecord, WriterGoes, WriterTypes, Lives
    <3>3. UNCHANGED <<jobs, bucket, wblock>>
      BY <2>2, Zenon DEF InsertRecord, storeVars
    <3> QED
      BY <1>0, <3>1, <3>2, <3>3 DEF HomeInv, PartsSet, Lives
  <2>3. CASE appender(w) \/ BeginWrite(w) \/ FinishWrite(w)
    BY <1>1, <2>3, Zenon DEF appender, BeginWrite, FinishWrite, tableVars, storeVars
  <2> QED
    BY <1>3, <2>1, <2>2, <2>3, Zenon DEF Write
<1>4. ASSUME NEW b \in Blocks, NEW by \in Callers, writeBlock(b, by)
      PROVE  HomeInv'
  <2>1. CASE Serialize(b, by)
    <3>1. /\ JobMoves(b, by, "upload", blocks[b].parts)
          /\ PartsSet(b, {}) /\ b \in DOMAIN blocks /\ UNCHANGED bucket
      BY <2>1, JobSteps, Zenon DEF Serialize
    <3>2. \A c \in DOMAIN blocks' : \A w \in blocks'[c].parts : Lives(w, c)'
      BY <1>0, <3>1, Zenon DEF HomeInv, PartsSet
    <3>3. ASSUME NEW c \in Blocks, NEW d \in Callers, NEW w \in jobs'[c][d].rows
          PROVE  Lives(w, c)'
      <4>1. CASE c = b /\ d = by
        <5>1. w \in blocks[b].parts
          BY <3>1, <4>1, SMTT(30) DEF JobMoves
        <5> QED
          BY <1>0, <3>1, <4>1, <5>1, Zenon DEF HomeInv
      <4>2. CASE c # b \/ d # by
        <5>1. w \in jobs[c][d].rows
          BY <3>1, <4>2, SMTT(30) DEF JobMoves
        <5> QED
          BY <1>0, <5>1, Zenon DEF HomeInv
      <4> QED
        BY <4>1, <4>2, SMTT(30)
    <3> QED
      BY <1>0, <3>1, <3>2, <3>3, Zenon DEF HomeInv
  <2>2. ASSUME NEW s, NEW ws, JobMoves(b, by, s, ws), ws \in {{}, jobs[b][by].rows}
        PROVE  \A c \in Blocks, d \in Callers : \A w \in jobs'[c][d].rows : Lives(w, c)'
    BY <1>0, <2>2, Zenon DEF HomeInv, JobMoves
  <2>3. ASSUME UNCHANGED blocks
        PROVE  \A c \in DOMAIN blocks' : \A w \in blocks'[c].parts : Lives(w, c)'
    BY <1>0, <2>3, Zenon DEF HomeInv
  <2>4. CASE Upload(b, by)
    <3>1. \A c \in DOMAIN bucket' : \A w \in bucket'[c].rows : Lives(w, c)'
      BY <1>0, <2>4, Zenon DEF Upload, HomeInv
    <3> QED
      BY <2>2, <2>3, <2>4, <3>1, JobSteps, Zenon DEF Upload, tableVars, HomeInv
  <2>5. CASE SerializeFails(b, by)
    BY <1>0, <2>2, <2>3, <2>5, JobSteps, Zenon DEF SerializeFails, HomeInv, tableVars
  <2>6. CASE DeleteFile(b, by)
    <3>1. \A c \in DOMAIN bucket' : \A w \in bucket'[c].rows : Lives(w, c)'
      BY <1>0, <2>6, Zenon DEF DeleteFile, HomeInv
    <3> QED
      BY <2>2, <2>3, <2>6, <3>1, JobSteps, Zenon DEF DeleteFile, tableVars, HomeInv
  <2>7. CASE SyncBlock(b, by) \/ UploadFails(b, by) \/ dropPendingBlock(b, by) \/ Dropped(b, by)
    BY <1>0, <2>2, <2>3, <2>7, JobSteps, Zenon DEF SyncBlock, UploadFails, dropPendingBlock, Dropped,
         tableVars, HomeInv
  <2> QED
    BY <1>4, <2>1, <2>4, <2>5, <2>6, <2>7, Zenon DEF writeBlock
<1>5. ASSUME NEW r \in Readers, Read(r)
      PROVE  HomeInv'
  BY <1>1, <1>5, ReadFrame, Zenon DEF tableVars, storeVars
<1>6. CASE Rotate
  BY <1>1, <1>2, <1>6, Rotation, Zenon DEF Rotate, JobInv
<1>7. CASE Close
  <2>1. CASE CloseWrites
    <3>1. \A c \in Blocks, d \in Callers : jobs'[c][d] = jobs[c][d] \/ jobs'[c][d].rows = {}
      BY <2>1, CloseStep, Zenon DEF JobMoves
    <3> QED
      BY <1>0, <1>7, <3>1, CloseFrame, Zenon DEF HomeInv
  <2>2. CASE close \/ CloseWaited \/ dropStorage
    BY <1>1, <1>7, <2>2, CloseFrame, Zenon DEF close, CloseWaited, dropStorage
  <2> QED
    BY <1>7, <2>1, <2>2, Zenon DEF Close
<1> QED
  BY <1>3, <1>4, <1>5, <1>6, <1>7, Zenon DEF Next, Callers

\* Blocks are only added, and keep their times.
LEMMA BlocksStay ==
  ASSUME IInv, Next
  PROVE  /\ DOMAIN blocks \subseteq DOMAIN blocks'
         /\ \A b \in DOMAIN blocks : blocks'[b].time = blocks[b].time
         /\ \/ \E b : Rotates(b)
            \/ UNCHANGED <<active, clock>> /\ DOMAIN blocks' = DOMAIN blocks
<1> USE DEF IInv
<1>1. ASSUME NEW b, Rotates(b)
      PROVE  DOMAIN blocks \subseteq DOMAIN blocks' /\ \A c \in DOMAIN blocks : blocks'[c].time = blocks[c].time
  BY <1>1, Zenon DEF Rotates
<1>2. ASSUME NEW w \in Writes, Write(w), ~ \E b : Rotates(b)
      PROVE  /\ DOMAIN blocks' = DOMAIN blocks /\ UNCHANGED <<active, clock>>
             /\ \A c \in DOMAIN blocks : blocks'[c].time = blocks[c].time
  BY <1>2, Rotation, InsertStep, Zenon
     DEF Write, appender, RotateFull, BeginWrite, InsertRecord, FinishWrite,
                        tableVars, PartsSet, JobInv
<1>3. ASSUME NEW b \in Blocks, NEW by \in Callers, writeBlock(b, by)
      PROVE  /\ DOMAIN blocks' = DOMAIN blocks /\ UNCHANGED <<active, clock>>
             /\ \A c \in DOMAIN blocks : blocks'[c].time = blocks[c].time
  BY <1>3, JobSteps, WriteBlockFrame, Zenon
  DEF writeBlock, SyncBlock, Upload, UploadFails, SerializeFails, DeleteFile,
      dropPendingBlock, Dropped, tableVars, PartsSet
<1>4. CASE Rotate /\ ~ \E b : Rotates(b)
  BY <1>4, Rotation, Zenon DEF Rotate, JobInv
<1> QED
  BY <1>1, <1>2, <1>3, <1>4, ReadFrame, CloseFrame, Zenon DEF Next, Callers, tableVars

\* RotateBlock gives a block a later time than all before it.
LEMMA TimeInvStep ==
  ASSUME IInv, Next
  PROVE  TimeInv'
<1> USE DEF IInv
<1>1. ASSUME NEW b, Rotates(b)
      PROVE  TimeInv'
  <2>1. /\ clock' = clock + 1 /\ clock \in Nat
        /\ blocks'[active'].time = clock'
        /\ DOMAIN blocks' = DOMAIN blocks \union {active'}
    BY <1>1 DEF Rotates, TimeInv, BlockTypes
  <2>2. \A c \in DOMAIN blocks : blocks'[c].time = blocks[c].time /\ c < active' /\ c \in Nat
    BY <1>1, BlockFacts DEF Rotates, BlockTypes
  <2>3. active' \in Nat
    BY <1>1 DEF Rotates, BlockTypes
  <2> QED
    BY <2>1, <2>2, <2>3 DEF TimeInv
<1>2. CASE UNCHANGED <<active, clock>> /\ DOMAIN blocks' = DOMAIN blocks
  BY <1>2, BlocksStay DEF TimeInv, BlockTypes
<1> QED
  BY <1>1, <1>2, BlocksStay, Zenon

\* The watermark is a transaction up to which all are committed.
LEMMA WatermarkFacts ==
  ASSUME Ordered, WriterTypes
  PROVE  Watermark \in 0 .. tx /\ 1 .. Watermark \subseteq committed
<1> DEFINE S == {n \in 0 .. tx : 1 .. n \subseteq committed}
<1>1. S \in SUBSET (0 .. tx) /\ 0 \in S /\ tx \in Nat
  BY DEF WriterTypes
<1>2. Max(S) \in S
  BY <1>1, MaxNat, Zenon
<1> QED
  BY <1>2, Zenon DEF Watermark

\* A reader's transaction covers committed writes only (View, BeginWrite).
LEMMA TxInvStep ==
  ASSUME Ordered, IInv, Next
  PROVE  TxInv'
<1> USE DEF IInv
<1>1. CASE UNCHANGED writerVars /\ UNCHANGED rtx
  BY <1>1, Zenon DEF writerVars, TxInv, Visible
<1>2. ASSUME NEW w \in Writes, Write(w)
      PROVE  TxInv'
  <2>0. UNCHANGED rtx
    BY <1>2, WriteFrame, Zenon DEF readerVars
  <2>1. ASSUME UNCHANGED <<wtx, tx, committed>>, NEW pc, wpc' = [wpc EXCEPT ![w] = pc], wpc[w] # "done",
               pc \in {"insert", "commit", "done"} <=> wpc[w] \in {"insert", "commit", "done"}
        PROVE  TxInv'
    BY <2>0, <2>1, Zenon DEF TxInv, Visible, WriterTypes
  <2>2. CASE appender(w)
    BY <2>1, <2>2, Zenon DEF appender, WriterGoes
  <2>3. CASE RotateFull(w)
    BY <2>1, <2>3, Zenon DEF RotateFull, WriterGoes
  <2>4. CASE BeginWrite(w)
    BY <2>0, <2>4 DEF BeginWrite, WriterGoes, TxInv, WriterTypes, ReaderTypes, Visible
  <2>5. CASE InsertRecord(w)
    BY <2>1, <2>5, Zenon DEF InsertRecord, WriterGoes
  <2>6. CASE FinishWrite(w)
    BY <2>0, <2>6, Zenon DEF FinishWrite, WriterGoes, TxInv, Visible, WriterTypes
  <2> QED
    BY <1>2, <2>2, <2>3, <2>4, <2>5, <2>6, Zenon DEF Write
<1>3. ASSUME NEW r \in Readers, Read(r)
      PROVE  TxInv'
  <2>1. UNCHANGED writerVars
    BY <1>3, ReadFrame, Zenon
  <2>2. CASE View(r)
    <3>1. rtx' = [rtx EXCEPT ![r] = Watermark]
      BY <2>2, Zenon DEF View
    <3>2. \A w \in Writes : wtx[w] \in 1 .. Watermark => wpc[w] = "done"
      BY WatermarkFacts DEF TxInv, WriterTypes
    <3>3. rtx'[r] = Watermark /\ \A q \in Readers : q # r => rtx'[q] = rtx[q]
      BY <3>1, Zenon DEF ReaderTypes
    <3>4. \A q \in Readers : rtx'[q] <= tx /\ \A w \in Writes : wtx[w] \in 1 .. rtx'[q] => wpc[w] = "done"
      BY <3>2, <3>3, WatermarkFacts DEF TxInv, Visible, WriterTypes
    <3> QED
      BY <2>1, <3>4, Zenon DEF TxInv, Visible, writerVars
  <2>3. CASE UNCHANGED rtx
    BY <1>1, <2>1, <2>3, Zenon
  <2> QED
    BY <1>3, <2>2, <2>3, Zenon
       DEF Read, memoryBlocks, ScanBlock, ScanSource, ProcessFile, ReadReturns
<1>4. CASE Rotate
  BY <1>1, <1>4, Zenon DEF Rotate, readerVars
<1> QED
  BY <1>1, <1>2, <1>3, <1>4, WriteBlockFrame, CloseFrame, Zenon DEF Next, Callers, readerVars
-----------------------------------------------------------------------------
\* A block is written by the callers in Callers.
LEMMA EmptiedBy ==
  /\ JobTypes => \A b \in Blocks :
         Emptied(b) <=> \E by \in Callers : Stage(b, by) \notin {"none", "sync", "serialize"}
  /\ JobTypes' => \A b \in Blocks :
         Emptied(b)' <=> \E by \in Callers : Stage(b, by)' \notin {"none", "sync", "serialize"}
BY Zenon DEF Emptied, JobTypes

\* Once a block is lost or written twice, it stays so.
LEMMA StoredBefore ==
  ASSUME IInv, Next
  PROVE  /\ \A b \in Blocks, by \in Callers : Stage(b, by) # "none" => Stage(b, by)' # "none"
         /\ \A b \in Blocks : WrittenTwice(b) => WrittenTwice(b)'
         /\ \A b \in Blocks : Stored(b)' => Stored(b)
<1> USE DEF IInv
<1>1. \A b \in Blocks, by \in Callers : Stage(b, by) # "none" => Stage(b, by)' # "none"
  <2>1. CASE UNCHANGED jobs
    BY <2>1, Zenon DEF Stage
  <2>2. ASSUME NEW c \in Blocks, NEW d \in Callers, NEW s, s # "none", NEW ws, JobMoves(c, d, s, ws)
        PROVE  \A b \in Blocks, by \in Callers : Stage(b, by) # "none" => Stage(b, by)' # "none"
    BY <2>2, Zenon DEF JobMoves, Stage
  <2>3. CASE \E b : Rotates(b)
    BY <2>2, <2>3, Zenon DEF Rotates, Callers
  <2>4. CASE \E w \in Writes : Write(w)
    BY <2>1, <2>3, <2>4, Rotation, Zenon
    DEF Write, appender, RotateFull, BeginWrite, InsertRecord, FinishWrite, storeVars, JobInv
  <2>5. CASE \E b \in Blocks, by \in Callers : writeBlock(b, by)
    BY <2>2, <2>5, WriteBlockMoves, Zenon
  <2>6. CASE Rotate
    BY <2>1, <2>3, <2>6, Rotation, Zenon DEF Rotate, JobInv
  <2>7. CASE Close
    BY <2>1, <2>2, <2>7, CloseStep, Zenon
       DEF Close, close, CloseWaited, CloseWrites, dropStorage, Callers
  <2> QED
    BY <2>1, <2>4, <2>5, <2>6, <2>7, ReadFrame, Zenon DEF Next, Callers, storeVars
<1>2. \A b \in Blocks : WrittenTwice(b) => WrittenTwice(b)'
  BY <1>1, Zenon DEF WrittenTwice, Callers
<1>3. lost \subseteq lost'
  <2>1. \A b \in Blocks, by \in Callers : writeBlock(b, by) => lost \subseteq lost'
    BY DEF writeBlock, SyncBlock, Serialize, Upload, UploadFails, SerializeFails, DeleteFile,
           dropPendingBlock, Dropped
  <2>2. Rotate => UNCHANGED lost
    BY Zenon DEF Rotate
  <2> QED
    BY <2>1, <2>2, WriteFrame, ReadFrame, CloseFrame, Zenon DEF Next, Callers, storeVars
<1> QED
  BY <1>1, <1>2, <1>3, Zenon DEF Stored

\* A write stays where it is while nothing happens to its block.
LEMMA PlacedStill ==
  ASSUME JobTypes, JobTypes', NEW w, wblock[w] \in Blocks, Placed(w),
         wblock'[w] = wblock[w],
         \A d \in Callers : jobs'[wblock[w]][d] = jobs[wblock[w]][d],
         w \in blocks[wblock[w]].parts => w \in blocks'[wblock[w]].parts,
         wblock[w] \in DOMAIN bucket =>
             wblock[w] \in DOMAIN bucket' /\ bucket'[wblock[w]] = bucket[wblock[w]]
  PROVE  Placed(w)'
<1> USE DEF Stage
<1>1. CASE InMemory(w)
  BY <1>1, EmptiedBy, Zenon DEF InMemory, Placed
<1>2. CASE OnItsWay(w)
  BY <1>2, Zenon DEF OnItsWay, Placed
<1>3. CASE OnFile(w)
  BY <1>3, Zenon DEF OnFile, Placed
<1> QED
  BY <1>1, <1>2, <1>3, Zenon DEF Placed

\* A write is in the only place that its block's stage allows.
LEMMA PlaceByStage ==
  ASSUME JobTypes, NEW w, wblock[w] \in Blocks, Placed(w), ~WrittenTwice(wblock[w]),
         NEW by \in Callers, Stage(wblock[w], by) # "none"
  PROVE  /\ Stage(wblock[w], by) \in {"sync", "serialize"} => InMemory(w)
         /\ Stage(wblock[w], by) = "upload" => w \in jobs[wblock[w]][by].rows
         /\ Stage(wblock[w], by) \in {"drop", "wait", "done"} => OnFile(w)
         /\ Stage(wblock[w], by) # "delete"
<1>1. \A d \in Callers : d # by => Stage(wblock[w], d) = "none"
  BY Zenon DEF WrittenTwice, Callers
<1> QED
  BY <1>1, EmptiedBy, Zenon DEF Placed, InMemory, OnItsWay, OnFile

\* A write of a block that nobody writes is in the block.
LEMMA PlaceUnwritten ==
  ASSUME JobTypes, NEW w, wblock[w] \in Blocks, Placed(w),
         \A by \in Callers : Stage(wblock[w], by) = "none"
  PROVE  w \in blocks[wblock[w]].parts
BY Zenon DEF Placed, InMemory, OnItsWay, OnFile

\* Handing a block to writeBlock for the first time leaves its writes in it.
LEMMA PlacedAtSync ==
  ASSUME JobTypes, NEW w, NEW by \in Callers, wblock[w] \in Blocks, Placed(w),
         \A d \in Callers : Stage(wblock[w], d) = "none",
         JobMoves(wblock[w], by, "sync", {}), UNCHANGED wblock,
         blocks'[wblock[w]].parts = blocks[wblock[w]].parts
  PROVE  Placed(w)'
<1>1. w \in blocks'[wblock[w]].parts
  BY PlaceUnwritten, Zenon
<1>2. \A d \in Callers : Stage(wblock[w], d)' \in {"none", "sync"}
  BY Zenon DEF JobMoves, Stage
<1>3. wblock'[w] = wblock[w] /\ JobTypes'
  BY Zenon DEF JobMoves
<1>4. InMemory(w)'
  BY <1>1, <1>2, <1>3, EmptiedBy, Zenon DEF InMemory, Stage
<1> QED
  BY <1>4, Zenon DEF Placed

\* A stored block's writes go from the block to the upload to the file.
LEMMA PlaceInvStep ==
  ASSUME IInv, Next
  PROVE  PlaceInv'
<1> USE DEF IInv
<1> DEFINE Homed  == \A v \in Writes : wpc'[v] \in {"commit", "done"} => wblock'[v] \in DOMAIN blocks'
           Found  == \A v \in Writes : wpc'[v] \in {"commit", "done"} /\ Stored(wblock[v])' => Placed(v)'
           Closes == cpc' \in {"open", "waiting", "active"} => \A b \in Blocks : Stage(b, "close")' = "none"
<1>0. /\ JobTypes /\ JobTypes'
      /\ \A v \in Writes : wpc[v] \in {"commit", "done"} => wblock[v] \in DOMAIN blocks /\ wblock[v] \in Blocks
      /\ DOMAIN blocks \subseteq DOMAIN blocks'
  BY JobInvStep, BlocksStay, BlockFacts, Zenon DEF JobInv, PlaceInv
<1>1. ASSUME Homed, Found, Closes
      PROVE  PlaceInv'
  BY <1>1, Zenon DEF PlaceInv
<1>2. ASSUME UNCHANGED <<wpc, wblock>>
      PROVE  Homed
  BY <1>0, <1>2, Zenon
<1>3. ASSUME NEW v \in Writes, wpc[v] \in {"commit", "done"}, UNCHANGED wblock, Stored(wblock[v])'
      PROVE  Stored(wblock[v]) /\ ~WrittenTwice(wblock[v])' /\ wblock[v] \notin lost' /\ Placed(v)
  BY <1>0, <1>3, StoredBefore, Zenon DEF Stored, WrittenTwice, Stage, PlaceInv
<1>4. ASSUME UNCHANGED <<wpc, wblock, jobs, blocks, bucket>>
      PROVE  Homed /\ Found
  <2>1. \A v \in Writes : wpc[v] \in {"commit", "done"} /\ Placed(v) => Placed(v)'
    BY <1>0, <1>4, PlacedStill, Zenon
  <2> QED
    BY <1>2, <1>3, <1>4, <2>1, Zenon
<1>5. ASSUME NEW b, Rotates(b), UNCHANGED <<wblock, bucket>>,
             \A v \in Writes : wpc'[v] \in {"commit", "done"} => wpc[v] \in {"commit", "done"}
      PROVE  Homed /\ Found
  <2>1. Homed
    BY <1>0, <1>5, Zenon
  <2>2. ASSUME NEW v \in Writes, wpc[v] \in {"commit", "done"}, Stored(wblock[v])'
        PROVE  Placed(v)'
    <3>1. /\ Placed(v) /\ ~WrittenTwice(wblock[v])' /\ wblock[v] \in Blocks
          /\ blocks'[wblock[v]] = blocks[wblock[v]] /\ wblock'[v] = wblock[v]
      BY <1>0, <1>3, <1>5, <2>2, Zenon DEF Rotates
    <3>2. CASE wblock[v] = b
      <4>1. Stage(b, "rotate") = "none"
        BY <1>5, Zenon DEF Rotates, SealInv
      <4>2. Stage(b, "rotate")' # "none" /\ Stage(b, "close")' = Stage(b, "close")
        BY <1>5, <3>1, <3>2, Zenon DEF Rotates, JobMoves, Stage, Callers
      <4>3. Stage(b, "close") = "none"
        BY <3>1, <3>2, <4>2, Zenon DEF WrittenTwice, Stage
      <4> QED
        BY <1>0, <1>5, <3>1, <3>2, <4>1, <4>3, PlacedAtSync, Zenon DEF Rotates, Callers
    <3>3. CASE wblock[v] # b
      BY <1>0, <1>5, <3>1, <3>3, PlacedStill, Zenon DEF Rotates, JobMoves
    <3> QED
      BY <3>2, <3>3, Zenon
  <2> QED
    BY <1>5, <2>1, <2>2, Zenon
<1>6. ASSUME NEW b, Rotates(b), UNCHANGED cpc
      PROVE  Closes
  BY <1>6, Zenon DEF Rotates, JobMoves, Stage, Callers, PlaceInv
<1>7. ASSUME UNCHANGED <<jobs, cpc>>
      PROVE  Closes
  BY <1>7, Zenon DEF Stage, PlaceInv
<1>8. ASSUME NEW w \in Writes, Write(w)
      PROVE  PlaceInv'
  <2>1. CASE appender(w)
    <3>1. /\ \A v \in Writes : wpc'[v] \in {"commit", "done"} =>
                 wpc[v] \in {"commit", "done"} /\ wblock'[v] = wblock[v]
          /\ UNCHANGED <<jobs, blocks, bucket, cpc, lost>>
      BY <2>1, Zenon DEF appender, WriterGoes, WriterTypes, tableVars, storeVars
    <3>2. \A v \in Writes : wpc[v] \in {"commit", "done"} /\ Placed(v) /\ wblock'[v] = wblock[v] => Placed(v)'
      BY <1>0, <3>1, PlacedStill, Zenon
    <3>3. \A v \in Writes : Stored(wblock[v])' /\ wblock'[v] = wblock[v] => Stored(wblock[v])
      BY <3>1, Zenon DEF Stored, WrittenTwice, Stage
    <3>4. Homed /\ Found
      BY <1>0, <3>1, <3>2, <3>3, Zenon DEF PlaceInv
    <3> QED
      BY <1>1, <1>7, <3>1, <3>4, Zenon
  <2>2. CASE RotateFull(w)
    <3>1. /\ \A v \in Writes : wpc'[v] \in {"commit", "done"} => wpc[v] \in {"commit", "done"}
          /\ UNCHANGED <<wblock, bucket, cpc, lost>>
          /\ Rotates(wblock[w]) \/ UNCHANGED <<blocks, jobs>>
      BY <2>2, Rotation, Zenon DEF RotateFull, WriterGoes, WriterTypes, JobInv
    <3>2. CASE Rotates(wblock[w])
      BY <1>1, <1>5, <1>6, <3>1, <3>2, Zenon
    <3>3. CASE UNCHANGED <<blocks, jobs>>
      BY <1>0, <1>1, <1>3, <1>7, <3>1, <3>3, PlacedStill, Zenon
    <3> QED
      BY <3>1, <3>2, <3>3, Zenon
  <2>3. CASE BeginWrite(w)
    <3>1. /\ \A v \in Writes : wpc'[v] \in {"commit", "done"} => wpc[v] \in {"commit", "done"}
          /\ UNCHANGED <<wblock, jobs, blocks, bucket, cpc>>
      BY <2>3, Zenon DEF BeginWrite, WriterGoes, WriterTypes, tableVars, storeVars
    <3>2. \A v \in Writes : wpc[v] \in {"commit", "done"} /\ Placed(v) => Placed(v)'
      BY <1>0, <3>1, PlacedStill, Zenon
    <3>3. Homed /\ Found
      BY <1>0, <1>3, <3>1, <3>2, Zenon
    <3> QED
      BY <1>1, <1>7, <3>1, <3>3, Zenon
  <2>4. CASE InsertRecord(w)
    <3>1. /\ \A v \in Writes : wpc'[v] \in {"commit", "done"} => wpc[v] \in {"commit", "done"} \/ v = w
          /\ UNCHANGED <<wblock, jobs, bucket, cpc>>
          /\ wpc[w] \in Holds
      BY <2>4, Zenon DEF InsertRecord, WriterGoes, WriterTypes, storeVars, Holds
    <3>2. /\ wblock[w] \in DOMAIN blocks /\ wblock[w] \in Blocks
          /\ PartsSet(wblock[w], blocks[wblock[w]].parts \union {w})
      BY <2>4, InsertStep, BlockFacts, Zenon
    <3>3. \A v \in Writes : wpc[v] \in {"commit", "done"} /\ Placed(v) => Placed(v)'
      BY <1>0, <3>1, <3>2, PlacedStill, Zenon DEF PartsSet
    <3>4. Placed(w)'
      <4>1. w \in PendingWriters(wblock[w])
        BY <3>1, Zenon DEF PendingWriters
      <4>2. \A by \in Callers : Stage(wblock[w], by) \in {"none", "sync"}
        BY <3>2, <4>1, Zenon DEF SealInv, Sealed, Callers
      <4>3. w \in blocks'[wblock[w]].parts
        BY <3>2, Zenon DEF PartsSet
      <4>4. InMemory(w)'
        BY <1>0, <3>1, <3>2, <4>2, <4>3, EmptiedBy, Zenon DEF InMemory, Stage
      <4> QED
        BY <4>4, Zenon DEF Placed
    <3>5. Homed /\ Found
      BY <1>0, <1>3, <3>1, <3>2, <3>3, <3>4, Zenon
    <3> QED
      BY <1>1, <1>7, <3>1, <3>5, Zenon
  <2>5. CASE FinishWrite(w)
    <3>1. /\ \A v \in Writes : wpc'[v] \in {"commit", "done"} => wpc[v] \in {"commit", "done"}
          /\ UNCHANGED <<wblock, jobs, blocks, bucket, cpc>>
      BY <2>5, Zenon DEF FinishWrite, WriterGoes, WriterTypes, tableVars, storeVars
    <3>2. \A v \in Writes : wpc[v] \in {"commit", "done"} /\ Placed(v) => Placed(v)'
      BY <1>0, <3>1, PlacedStill, Zenon
    <3>3. Homed /\ Found
      BY <1>0, <1>3, <3>1, <3>2, Zenon
    <3> QED
      BY <1>1, <1>7, <3>1, <3>3, Zenon
  <2> QED
    BY <1>8, <2>1, <2>2, <2>3, <2>4, <2>5, Zenon DEF Write
<1>9. ASSUME NEW b \in Blocks, NEW by \in Callers, writeBlock(b, by)
      PROVE  PlaceInv'
  <2>0. UNCHANGED <<wpc, wblock, cpc>> /\ Homed
    BY <1>2, <1>9, WriteBlockFrame, Zenon DEF writerVars
  <2>1. PICK s \in Stages \ {"none", "sync"}, ws \in SUBSET Writes : JobMoves(b, by, s, ws)
    BY <1>9, WriteBlockMoves, Zenon
  <2>2. Closes
    <3>1. Stage(b, by) # "none"
      BY <1>9, WriteBlockMoves, Zenon
    <3> QED
      BY <2>0, <2>1, <3>1, Zenon DEF PlaceInv, JobMoves, Stage, Callers
  <2>3. \A c \in DOMAIN blocks : c # b => /\ blocks'[c].parts = blocks[c].parts
                                          /\ c \in DOMAIN bucket => c \in DOMAIN bucket' /\ bucket'[c] = bucket[c]
    BY <1>9, JobSteps, Zenon
       DEF writeBlock, SyncBlock, Serialize, Upload, UploadFails, SerializeFails, DeleteFile,
           dropPendingBlock, Dropped, tableVars, PartsSet
  <2>4. ASSUME NEW v \in Writes, wpc[v] \in {"commit", "done"}, Stored(wblock[v])', wblock[v] # b
        PROVE  Placed(v)'
    BY <1>0, <1>3, <2>0, <2>1, <2>3, <2>4, PlacedStill, Zenon DEF JobMoves
  <2>5. ASSUME NEW v \in Writes, wpc[v] \in {"commit", "done"}, Stored(wblock[v])', wblock[v] = b
        PROVE  Placed(v)'
    <3>1. /\ Placed(v) /\ ~WrittenTwice(b) /\ b \notin lost' /\ wblock'[v] = b
          /\ Stage(b, by) # "none"
      BY <1>3, <1>9, <2>0, <2>5, WriteBlockMoves, Zenon DEF Stored
    <3>2. /\ Stage(b, by) \in {"sync", "serialize"} => InMemory(v)
          /\ Stage(b, by) = "upload" => v \in jobs[b][by].rows
          /\ Stage(b, by) \in {"drop", "wait", "done"} => OnFile(v)
          /\ Stage(b, by) # "delete"
      BY <1>0, <2>5, <3>1, PlaceByStage, Zenon
    <3>3. \A d \in Callers : d # by => Stage(b, d) = "none" /\ Stage(b, d)' = "none"
      BY <2>1, <3>1, Zenon DEF WrittenTwice, Callers, JobMoves, Stage
    <3>4. CASE SyncBlock(b, by)
      <4>1. Stage(b, by) = "sync" /\ Stage(b, by)' = "serialize" /\ UNCHANGED blocks
        BY <3>1, <3>4, JobSteps, Zenon DEF SyncBlock, JobMoves, Stage, tableVars
      <4>2. InMemory(v)'
        BY <1>0, <2>5, <3>1, <3>2, <3>3, <4>1, EmptiedBy, Zenon DEF InMemory
      <4> QED
        BY <4>2, Zenon DEF Placed
    <3>5. CASE Serialize(b, by)
      <4>1. Stage(b, by) = "serialize" /\ JobMoves(b, by, "upload", blocks[b].parts)
        BY <3>5, JobSteps, Zenon DEF Serialize
      <4>2. v \in jobs'[b][by].rows /\ Stage(b, by)' = "upload"
        BY <2>5, <3>2, <4>1, Zenon DEF InMemory, JobMoves, Stage
      <4> QED
        BY <3>1, <4>2, Zenon DEF OnItsWay, Placed, Stage
    <3>6. CASE Upload(b, by)
      <4>1. Stage(b, by) = "upload" /\ Stage(b, by)' = "drop"
        BY <3>6, JobSteps, Zenon DEF Upload, JobMoves, Stage
      <4>2. b \in DOMAIN bucket' /\ bucket'[b] = [is |-> Sound, rows |-> jobs[b][by].rows]
        BY <3>6, Zenon DEF Upload
      <4>3. v \in jobs[b][by].rows
        BY <3>2, <4>1, Zenon
      <4>4. bucket'[b].is = Sound /\ v \in bucket'[b].rows
        BY <4>2, <4>3
      <4> QED
        BY <3>1, <4>1, <4>2, <4>4, Zenon DEF OnFile, Placed
    <3>7. CASE UploadFails(b, by) \/ SerializeFails(b, by)
      BY <3>1, <3>7, Zenon DEF UploadFails, SerializeFails
    <3>8. CASE DeleteFile(b, by)
      BY <3>2, <3>8, Zenon DEF DeleteFile
    <3>9. CASE dropPendingBlock(b, by) \/ Dropped(b, by)
      <4>0. \E t \in {"wait", "done"} : \E us : JobMoves(b, by, t, us)
        BY <3>9, JobSteps, Zenon
      <4>1. OnFile(v) /\ Stage(b, by)' \in {"wait", "done"} /\ UNCHANGED bucket
        BY <3>2, <3>9, <4>0, Zenon DEF dropPendingBlock, Dropped, JobMoves, Stage
      <4> QED
        BY <2>5, <3>1, <4>1, Zenon DEF OnFile, Placed, Stage
    <3> QED
      BY <1>9, <3>4, <3>5, <3>6, <3>7, <3>8, <3>9, Zenon DEF writeBlock
  <2>6. Found
    BY <2>0, <2>4, <2>5, Zenon
  <2> QED
    BY <1>1, <2>0, <2>2, <2>6, Zenon
<1>10. ASSUME NEW r \in Readers, Read(r)
       PROVE  PlaceInv'
  BY <1>1, <1>4, <1>7, <1>10, ReadFrame, Zenon DEF tableVars, storeVars, writerVars
<1>11. CASE Rotate
  <2>1. UNCHANGED <<wpc, wblock, bucket, cpc>> /\ (Rotates(active) \/ UNCHANGED <<blocks, jobs>>)
    BY <1>11, Rotation, Zenon DEF Rotate, JobInv, writerVars
  <2> QED
    BY <1>1, <1>4, <1>5, <1>6, <1>7, <2>1, Zenon
<1>12. CASE Close
  <2>1. UNCHANGED <<wpc, wblock, blocks, bucket, lost>> /\ Homed
    BY <1>2, <1>12, CloseFrame, Zenon DEF writerVars
  <2>2. CASE CloseWrites
    <3>1. JobMoves(active, "close", "sync", {}) /\ cpc = "active" /\ cpc' = "writing"
      BY <2>2, CloseStep, Zenon DEF CloseWrites, CloserGoes
    <3>2. \A d \in Callers : Stage(active, d) = "none"
      BY <3>1, BlockFacts, Zenon DEF PlaceInv, SealInv, Callers
    <3>3. ASSUME NEW v \in Writes, wpc[v] \in {"commit", "done"}, Stored(wblock[v])'
          PROVE  Placed(v)'
      <4>1. Placed(v) /\ wblock[v] \in Blocks
        BY <1>0, <1>3, <2>1, <3>3, Zenon
      <4>2. CASE wblock[v] = active
        BY <1>0, <2>1, <3>1, <3>2, <4>1, <4>2, PlacedAtSync, Zenon DEF Callers
      <4>3. CASE wblock[v] # active
        BY <1>0, <2>1, <3>1, <4>1, <4>3, PlacedStill, Zenon DEF JobMoves
      <4> QED
        BY <4>2, <4>3, Zenon
    <3>4. Found /\ Closes
      BY <2>1, <3>1, <3>3, Zenon
    <3> QED
      BY <1>1, <2>1, <3>4, Zenon
  <2>3. CASE close \/ CloseWaited \/ dropStorage
    BY <1>1, <1>4, <2>1, <2>3, Zenon DEF close, CloseWaited, dropStorage, CloserGoes, PlaceInv, Stage
  <2> QED
    BY <1>12, <2>2, <2>3, Zenon DEF Close
<1> QED
  BY <1>8, <1>9, <1>10, <1>11, <1>12, Zenon DEF Next, Callers
=============================================================================
