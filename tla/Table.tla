-------------------------------- MODULE Table --------------------------------
(***************************************************************************)
(* A table while it is read, written, rotated, persisted and closed         *)
(* (table.go, store.go, DB.Close in db.go): what a reader sees of the       *)
(* blocks in memory and of the block files in object storage.               *)
(*                                                                         *)
(* A write is one record and is inserted once; a block in memory is the     *)
(* set of writes in its index, and is identified by its position in blocks. *)
(* The index itself is module LSM; the log and crashes are module DB.  A    *)
(* section of code under the table lock that does not wait is one action;   *)
(* dropPendingBlock and close wait with the lock held, and take it and      *)
(* return it in actions of their own.                                       *)
(***************************************************************************)
EXTENDS Naturals, Sequences, FiniteSets, FiniteSetsExt

CONSTANTS
    Writes,            \* the records that are inserted
    Readers,           \* calls of View and Iterator
    ActiveMemorySize,  \* activeMemorySize, in records
    MaxBlocks,         \* bound: blocks that are created
    MaxManual,         \* bound: calls of RotateBlock by the user
    MaxFailures        \* bound: failures of Serialize and Upload

ASSUME TableAssumption ==
    /\ ActiveMemorySize \in Nat \ {0}
    /\ MaxBlocks \in Nat \ {0}
    /\ MaxManual \in Nat
    /\ MaxFailures \in Nat

VARIABLES
    lock,              \* who waits with Table.mtx held: a writeBlock, close or nobody
    blocks,            \* every TableBlock: its ULID's time and the writes in its index
    active,            \* Table.active
    pendingBlocks,     \* Table.pendingBlocks
    closing,           \* Table.closing
    clock,             \* the time of the last ULID
    jobs,              \* the calls of writeBlock: block and caller, to state
    bucket,            \* object storage: block to data.parquet
    cpc,               \* DB.Close
    wpc, wblock, wtx,  \* each write's InsertRecord, its block and transaction
    tx, committed,     \* transactions begun by writes, and committed
    rpc, rtx,          \* each reader and the transaction it reads at
    pinned,            \* blocks whose pendingReadersWg it has added to
    unread,            \* those it has still to scan
    lastBlock,         \* lastBlockTimestamp
    files,             \* files it has listed and not yet processed
    seen,              \* how often it was passed each write
    manual, failures,  \* how often the bounded actions have happened
    lost,              \* history: blocks that were not to be stored, or could not be
    hidden             \* history: writes that a reader was bound to miss

tableVars  == <<lock, blocks, active, pendingBlocks, closing, clock>>
storeVars  == <<jobs, bucket, cpc, manual, failures, lost>>
writerVars == <<wpc, wblock, wtx, tx, committed>>
readerVars == <<rpc, rtx, pinned, unread, lastBlock, files, seen, hidden>>
vars       == <<tableVars, storeVars, writerVars, readerVars>>

Blocks == 1 .. MaxBlocks
Nobody == <<>>
Closer == <<0, "close">>
Torn   == "torn"       \* a file that ends before its footer
Sound  == "sound"

NoJob == [stage |-> "none", skip |-> FALSE, rows |-> {}]
Job(skip) == [NoJob EXCEPT !.stage = "sync", !.skip = skip]

Free == lock = Nobody

\* mutant: a full block is given back only after its rotation
HoldsWhileRotating == {"rotate", "begin", "insert", "commit"}

\* between ActiveWriteBlock and finish, which a writer of a full block calls at once
Holds == {"begin", "insert", "commit"}

PendingWriters(b) == {w \in Writes : wblock[w] = b /\ wpc[w] \in Holds}
PendingReaders(b) == {r \in Readers : b \in pinned[r]}

\* DB.highWatermark, when the pool has caught up (module TxPool)
Watermark == Max({n \in 0 .. tx : 1 .. n \subseteq committed})

newTableBlock(time) == [time |-> time, parts |-> {}]

Init ==
    /\ lock = Nobody
    /\ blocks = <<newTableBlock(1)>> /\ active = 1 /\ pendingBlocks = {}
    /\ closing = FALSE
    /\ clock = 1
    /\ jobs = [b \in Blocks |-> [by \in {"rotate", "close"} |-> NoJob]]
    /\ bucket = [b \in {} |-> 0]
    /\ cpc = "open"
    /\ wpc = [w \in Writes |-> "start"]
    /\ wblock = [w \in Writes |-> 0]
    /\ wtx = [w \in Writes |-> 0]
    /\ tx = 0 /\ committed = {}
    /\ rpc = [r \in Readers |-> "start"]
    /\ rtx = [r \in Readers |-> 0]
    /\ pinned = [r \in Readers |-> {}]
    /\ unread = [r \in Readers |-> {}]
    /\ lastBlock = [r \in Readers |-> 0]
    /\ files = [r \in Readers |-> {}]
    /\ seen = [r \in Readers |-> [w \in Writes |-> 0]]
    /\ manual = 0 /\ failures = 0
    /\ lost = {}
    /\ hidden = [r \in Readers |-> {}]
-----------------------------------------------------------------------------
(***************************************************************************)
(* RotateBlock.  The new ULID's time differs from the old block's.          *)
(***************************************************************************)
\* mutant: the block is not compared with the active one
AnyBlock(b) == TRUE

StillActive(b) == active = b

\* mutant: the ULID may have the old block's time
AnyTime(b, t) == TRUE

NewTime(b, t) == t # blocks[b].time

RotateBlock(b, skip) ==
    IF StillActive(b)
    THEN /\ Len(blocks) < MaxBlocks
         /\ \E t \in {clock, clock + 1} :
                /\ NewTime(b, t)
                /\ clock' = t
                /\ blocks' = Append(blocks, newTableBlock(t))
         /\ active' = Len(blocks')
         /\ pendingBlocks' = pendingBlocks \union {b}
         /\ jobs' = [jobs EXCEPT ![b]["rotate"] = Job(skip)]
    ELSE UNCHANGED <<blocks, active, pendingBlocks, clock, jobs>>

\* a user rotates the active block
Rotate ==
    /\ Free
    /\ manual < MaxManual
    /\ manual' = manual + 1
    /\ \E skip \in BOOLEAN : RotateBlock(active, skip)
    /\ UNCHANGED <<lock, closing, bucket, cpc, failures, lost, writerVars, readerVars>>
-----------------------------------------------------------------------------
(***************************************************************************)
(* InsertRecord.  appender takes the active block and counts the write as   *)
(* pending on it; if the block is full it gives it back, rotates and tries  *)
(* again.                                                                   *)
(***************************************************************************)
WriterGoes(w, pc) == wpc' = [wpc EXCEPT ![w] = pc]

Size(b) == Cardinality(blocks[b].parts)

\* ActiveWriteBlock and the look at the size of the block it returned
appender(w) ==
    /\ wpc[w] = "start"
    /\ Free
    /\ IF closing THEN WriterGoes(w, "refused") /\ UNCHANGED wblock
       ELSE /\ wblock' = [wblock EXCEPT ![w] = active]
            /\ WriterGoes(w, IF Size(active) < ActiveMemorySize THEN "begin" ELSE "rotate")
    /\ UNCHANGED <<tableVars, storeVars, wtx, tx, committed, readerVars>>

RotateFull(w) ==
    /\ wpc[w] = "rotate"
    /\ Free
    /\ RotateBlock(wblock[w], FALSE)
    /\ WriterGoes(w, "start")
    /\ UNCHANGED <<lock, closing, bucket, cpc, manual, failures, lost, wblock, wtx, tx,
                   committed, readerVars>>

BeginWrite(w) ==
    /\ wpc[w] = "begin"
    /\ tx' = tx + 1
    /\ wtx' = [wtx EXCEPT ![w] = tx']
    /\ WriterGoes(w, "insert")
    /\ UNCHANGED <<tableVars, storeVars, wblock, committed, readerVars>>

InsertRecord(w) ==
    /\ wpc[w] = "insert"
    /\ blocks' = [blocks EXCEPT ![wblock[w]].parts = @ \union {w}]
    /\ WriterGoes(w, "commit")
    /\ UNCHANGED <<lock, active, pendingBlocks, closing, clock, storeVars, wblock, wtx,
                   tx, committed, readerVars>>

\* the deferred commit, and then the deferred finish
FinishWrite(w) ==
    /\ wpc[w] = "commit"
    /\ committed' = committed \union {wtx[w]}
    /\ WriterGoes(w, "done")
    /\ UNCHANGED <<tableVars, storeVars, wblock, wtx, tx, readerVars>>
-----------------------------------------------------------------------------
(***************************************************************************)
(* writeBlock(b), called by RotateBlock or by DB.Close: wait for writers,   *)
(* Persist, drop the block.  Persist pipes Serialize, which empties the     *)
(* index once it has written everything, into Upload.                       *)
(***************************************************************************)
Stage(b, by)      == jobs[b][by].stage
JobGoes(b, by, s) == jobs' = [jobs EXCEPT ![b][by].stage = s]

\* mutant: writeBlock does not wait for pendingWritersWg
SyncedAtOnce(b) == TRUE

Synced(b) == PendingWriters(b) = {}

SyncBlock(b, by) ==
    /\ Stage(b, by) = "sync"
    /\ Synced(b)
    /\ JobGoes(b, by, IF jobs[b][by].skip THEN "drop" ELSE "serialize")
    /\ lost' = IF jobs[b][by].skip THEN lost \union {b} ELSE lost
    /\ UNCHANGED <<tableVars, bucket, cpc, manual, failures, writerVars, readerVars>>

Serialize(b, by) ==
    /\ Stage(b, by) = "serialize"
    /\ jobs' = [jobs EXCEPT ![b][by] = [@ EXCEPT !.stage = "upload", !.rows = blocks[b].parts]]
    /\ blocks' = [blocks EXCEPT ![b].parts = {}]
    /\ UNCHANGED <<lock, active, pendingBlocks, closing, clock, bucket, cpc, manual,
                   failures, lost, writerVars, readerVars>>

\* Upload replaces a file that is there
Upload(b, by) ==
    /\ Stage(b, by) = "upload"
    /\ jobs' = [jobs EXCEPT ![b][by] = [NoJob EXCEPT !.stage = "drop"]]
    /\ bucket' = [f \in DOMAIN bucket \union {b} |->
                     IF f = b THEN [is |-> Sound, rows |-> jobs[b][by].rows] ELSE bucket[f]]
    /\ UNCHANGED <<tableVars, cpc, manual, failures, lost, writerVars, readerVars>>

\* Upload returns an error before or after Serialize has finished
UploadFails(b, by) ==
    /\ Stage(b, by) \in {"serialize", "upload"}
    /\ failures < MaxFailures
    /\ failures' = failures + 1
    /\ JobGoes(b, by, "drop")
    /\ lost' = lost \union {b}
    /\ UNCHANGED <<tableVars, bucket, cpc, manual, writerVars, readerVars>>

\* Serialize fails; the pipe is closed without an error and Upload stores what came
SerializeFails(b, by) ==
    /\ Stage(b, by) = "serialize"
    /\ failures < MaxFailures
    /\ failures' = failures + 1
    /\ JobGoes(b, by, "delete")
    /\ bucket' = [f \in DOMAIN bucket \union {b} |->
                     IF f = b THEN [is |-> Torn, rows |-> {}] ELSE bucket[f]]
    /\ lost' = lost \union {b}
    /\ UNCHANGED <<tableVars, cpc, manual, writerVars, readerVars>>

\* Delete may fail as well
DeleteFile(b, by) ==
    /\ Stage(b, by) = "delete"
    /\ JobGoes(b, by, "drop")
    /\ \/ bucket' = [f \in DOMAIN bucket \ {b} |-> bucket[f]]
       \/ UNCHANGED bucket
    /\ UNCHANGED <<tableVars, cpc, manual, failures, lost, writerVars, readerVars>>

dropPendingBlock(b, by) ==
    /\ Stage(b, by) = "drop"
    /\ Free
    /\ lock' = <<b, by>>
    /\ pendingBlocks' = pendingBlocks \ {b}
    /\ JobGoes(b, by, "wait")
    /\ UNCHANGED <<blocks, active, closing, clock, bucket, cpc, manual, failures, lost,
                   writerVars, readerVars>>

Dropped(b, by) ==
    /\ Stage(b, by) = "wait"
    /\ PendingReaders(b) = {}
    /\ PendingWriters(b) = {}
    /\ lock' = Nobody
    /\ jobs' = [jobs EXCEPT ![b][by] = [NoJob EXCEPT !.stage = "done"]]
    /\ UNCHANGED <<blocks, active, pendingBlocks, closing, clock, bucket, cpc, manual,
                   failures, lost, writerVars, readerVars>>
-----------------------------------------------------------------------------
(***************************************************************************)
(* DB.Close with a sink: close the table, write its active block, remove    *)
(* the log and the snapshots.                                               *)
(***************************************************************************)
CloserGoes(pc) == cpc' = pc

close ==
    /\ cpc = "open"
    /\ Free
    /\ lock' = Closer
    /\ CloserGoes("waiting")
    /\ UNCHANGED <<blocks, active, pendingBlocks, closing, clock, jobs, bucket, manual,
                   failures, lost, writerVars, readerVars>>

\* the writers have gone; the compactions of the index that are waited for next, and the closers,
\* take no lock of the table
CloseWaited ==
    /\ cpc = "waiting"
    /\ PendingWriters(active) = {}
    /\ closing' = TRUE
    /\ lock' = Nobody
    /\ CloserGoes("active")
    /\ UNCHANGED <<blocks, active, pendingBlocks, clock, jobs, bucket, manual, failures,
                   lost, writerVars, readerVars>>

CloseWrites ==
    /\ cpc = "active"
    /\ Free
    /\ jobs' = [jobs EXCEPT ![active]["close"] = Job(FALSE)]
    /\ CloserGoes("writing")
    /\ UNCHANGED <<tableVars, bucket, manual, failures, lost, writerVars, readerVars>>

dropStorage ==
    /\ cpc = "writing"
    /\ \E b \in Blocks : Stage(b, "close") = "done"
    /\ CloserGoes("closed")
    /\ UNCHANGED <<tableVars, jobs, bucket, manual, failures, lost, writerVars, readerVars>>
-----------------------------------------------------------------------------
(***************************************************************************)
(* A query: View takes the transaction, collectRowGroups pins the blocks in *)
(* memory and scans one after the other, then the block files.              *)
(***************************************************************************)
\* the writes that the reader's transaction covers
Visible(r) == {w \in Writes : wtx[w] \in 1 .. rtx[r]}

ReaderGoes(r, pc) == rpc' = [rpc EXCEPT ![r] = pc]

View(r) ==
    /\ rpc[r] = "start"
    /\ rtx' = [rtx EXCEPT ![r] = Watermark]
    /\ ReaderGoes(r, "pin")
    /\ UNCHANGED <<tableVars, storeVars, writerVars, pinned, unread, lastBlock, files,
                   seen, hidden>>

LastReadBlockTimestamp(bs) == Min({blocks[b].time : b \in bs})

memoryBlocks(r) ==
    /\ rpc[r] = "pin"
    /\ Free
    /\ LET bs   == {active} \union pendingBlocks
           last == LastReadBlockTimestamp(bs)
       IN  /\ pinned' = [pinned EXCEPT ![r] = bs]
           /\ unread' = [unread EXCEPT ![r] = bs]
           /\ lastBlock' = [lastBlock EXCEPT ![r] = last]
           /\ hidden' = [hidden EXCEPT ![r] = {w \in Visible(r) : wblock[w] \notin bs
                            /\ \E p \in pendingBlocks : blocks[wblock[w]].time > blocks[p].time}]
    /\ ReaderGoes(r, "scan")
    /\ UNCHANGED <<tableVars, storeVars, writerVars, rtx, files, seen>>

Passed(r, ws) == seen' = [seen EXCEPT ![r] = [w \in Writes |-> @[w] + (IF w \in ws THEN 1 ELSE 0)]]

Emptied(b) == \E by \in DOMAIN jobs[b] : Stage(b, by) \notin {"none", "sync", "serialize"}

\* LSM.Scan of a block, the active one first; it may have been serialized since
\* it was pinned
ScanBlock(r, b) ==
    /\ rpc[r] = "scan"
    /\ b \in unread[r]
    /\ unread[r] = pinned[r] => b = Max(pinned[r])
    /\ unread' = [unread EXCEPT ![r] = @ \ {b}]
    /\ Passed(r, {w \in blocks[b].parts : wtx[w] <= rtx[r]})
    /\ hidden' = [hidden EXCEPT ![r] = @ \union
                     {w \in Visible(r) : wblock[w] = b /\ Emptied(b)}]
    /\ UNCHANGED <<tableVars, storeVars, writerVars, rpc, rtx, pinned, lastBlock, files>>

\* mutant: > for >=
IgnoredLater(r, b) == lastBlock[r] # 0 /\ blocks[b].time > lastBlock[r]

Ignored(r, b) == lastBlock[r] # 0 /\ blocks[b].time >= lastBlock[r]

\* Iter lists the files; a block's name is enough to ignore it
ScanSource(r) ==
    /\ rpc[r] = "scan"
    /\ unread[r] = {}
    /\ files' = [files EXCEPT ![r] = {b \in DOMAIN bucket : ~Ignored(r, b)}]
    /\ ReaderGoes(r, "files")
    /\ UNCHANGED <<tableVars, storeVars, writerVars, rtx, pinned, unread, lastBlock, seen, hidden>>

\* the deferred release of the blocks
Unpin(r, pc) ==
    /\ ReaderGoes(r, pc)
    /\ pinned' = [pinned EXCEPT ![r] = {}]
    /\ files' = [files EXCEPT ![r] = {}]
    /\ lastBlock' = [lastBlock EXCEPT ![r] = 0]

\* a file that is gone or cannot be opened fails the query
ProcessFile(r, b) ==
    /\ rpc[r] = "files"
    /\ b \in files[r]
    /\ IF b \notin DOMAIN bucket \/ bucket[b].is = Torn
       THEN Unpin(r, "failed") /\ UNCHANGED seen
       ELSE /\ files' = [files EXCEPT ![r] = @ \ {b}]
            /\ Passed(r, bucket[b].rows)
            /\ UNCHANGED <<rpc, pinned, lastBlock>>
    /\ UNCHANGED <<tableVars, storeVars, writerVars, rtx, unread, hidden>>

ReadReturns(r) ==
    /\ rpc[r] = "files"
    /\ files[r] = {}
    /\ Unpin(r, "done")
    /\ UNCHANGED <<tableVars, storeVars, writerVars, rtx, unread, seen, hidden>>
-----------------------------------------------------------------------------
Write(w) ==
    \/ appender(w) \/ RotateFull(w)
    \/ BeginWrite(w) \/ InsertRecord(w) \/ FinishWrite(w)

writeBlock(b, by) ==
    \/ SyncBlock(b, by) \/ Serialize(b, by) \/ Upload(b, by)
    \/ UploadFails(b, by) \/ SerializeFails(b, by) \/ DeleteFile(b, by)
    \/ dropPendingBlock(b, by) \/ Dropped(b, by)

Close == close \/ CloseWaited \/ CloseWrites \/ dropStorage

Read(r) ==
    \/ View(r) \/ memoryBlocks(r) \/ ScanSource(r) \/ ReadReturns(r)
    \/ \E b \in Blocks : ScanBlock(r, b) \/ ProcessFile(r, b)

Next ==
    \/ \E w \in Writes : Write(w)
    \/ \E b \in Blocks, by \in {"rotate", "close"} : writeBlock(b, by)
    \/ \E r \in Readers : Read(r)
    \/ Rotate
    \/ Close

Spec == Init /\ [][Next]_vars
-----------------------------------------------------------------------------
(***************************************************************************)
(* Types; a block in memory is the active one or has been handed to         *)
(* writeBlock, and a wait with the table lock held belongs to a writeBlock  *)
(* that drops its block or to close.                                        *)
(***************************************************************************)
TypeOK ==
    /\ blocks \in Seq([time : Nat, parts : SUBSET Writes])
    /\ active \in DOMAIN blocks
    /\ \A b \in DOMAIN blocks : b = active \/ Stage(b, "rotate") # "none"
    /\ pendingBlocks \subseteq DOMAIN blocks \ {active}
    /\ closing \in BOOLEAN
    /\ DOMAIN bucket \subseteq DOMAIN blocks
    /\ lock \in {Nobody, Closer} \union {j \in Blocks \X {"rotate", "close"} : Stage(j[1], j[2]) = "wait"}
    /\ lock = Closer <=> cpc = "waiting"
    /\ \A r \in Readers : unread[r] \subseteq pinned[r]

(***************************************************************************)
(* Once writeBlock has waited for the writers of a block, no writer holds   *)
(* it: "from now on, the block will no longer be modified" (table.go:431).  *)
(* It rests on the table lock of ActiveWriteBlock and RotateBlock, and on   *)
(* close for the block that Close writes.                                   *)
(***************************************************************************)
Sealed ==
    \A b \in Blocks, by \in {"rotate", "close"} :
        Stage(b, by) \notin {"none", "sync"} => PendingWriters(b) = {}

(***************************************************************************)
(* A query is passed no write twice, though a block may be in memory when   *)
(* the query begins and in object storage when it gets there                *)
(* (table.go:1067).                                                         *)
(***************************************************************************)
ReadOnce == \A r \in Readers, w \in Writes : seen[r][w] <= 1

\* a rotation that began before close rotates the block that Close is writing
WrittenTwice(b) == \A by \in {"rotate", "close"} : Stage(b, by) # "none"

Stored(b) == b \notin lost /\ ~WrittenTwice(b)

(***************************************************************************)
(* A query that returns was passed every write that its transaction covers, *)
(* except those whose block could not be stored, was written twice, was     *)
(* serialized before the query scanned it, or is newer than a block that    *)
(* was still pending (table.go:1048).  A query fails on a file only if the  *)
(* file was left behind by a failed delete or its block was written twice:  *)
(* it never meets a file that is being written or deleted.                  *)
(***************************************************************************)
ReadComplete ==
    \A r \in Readers :
        /\ rpc[r] = "done" =>
               \A w \in Visible(r) \ hidden[r] : Stored(wblock[w]) => seen[r][w] = 1
        /\ rpc[r] = "failed" =>
               \E b \in DOMAIN blocks : WrittenTwice(b) \/ (b \in DOMAIN bucket /\ bucket[b].is = Torn)

Unfinished ==
    \/ lock # Nobody \/ cpc \notin {"open", "closed"}
    \/ \E w \in Writes : wpc[w] \notin {"start", "done", "refused"}
    \/ \E r \in Readers : rpc[r] \notin {"start", "done", "failed"}
    \/ \E b \in Blocks, by \in {"rotate", "close"} : Stage(b, by) \notin {"none", "done"}

(***************************************************************************)
(* dropPendingBlock waits for readers and close for writers with the table  *)
(* lock held, while others wait for the lock: as long as a call has not     *)
(* returned, somebody can take a step.                                      *)
(***************************************************************************)
NoDeadlock == Unfinished => ENABLED Next

(***************************************************************************)
(* What the watermark promises: "Reads can safely access any write that has *)
(* a lower or equal tx id" (db.go:1239).  The code violates it: Persist     *)
(* empties a block that is still pending, and the file is then ignored.     *)
(***************************************************************************)
ReadCommitted ==
    \A r \in Readers : rpc[r] = "done" =>
        \A w \in Visible(r) : Stored(wblock[w]) => seen[r][w] = 1

(***************************************************************************)
(* "Close persists all data from the columnstore to storage" (db.go:276).   *)
(* The code violates it: Close waits for the block it writes and for no     *)
(* other before it removes the log.                                         *)
(***************************************************************************)
ClosePersists ==
    cpc = "closed" =>
        \A w \in Writes : wpc[w] = "done" => \E b \in DOMAIN bucket : w \in bucket[b].rows
=============================================================================
