--------------------------------- MODULE DB ---------------------------------
(***************************************************************************)
(* Durability of a database (db.go, table.go, snapshot.go, store.go): the   *)
(* writers of a table, block rotation and persistence, snapshots, the       *)
(* write-ahead log (module WAL), crashes, and recovery.                     *)
(*                                                                         *)
(* The database has one table.  A write is a model value; what a block      *)
(* holds is how often it holds each write.  A block is an element of the    *)
(* sequence blocks and is identified by its position there, because after a *)
(* recovery two blocks may have the same ULID; ULIDs are numbers and order  *)
(* blocks by time.                                                          *)
(***************************************************************************)
EXTENDS WAL, Sequences

CONSTANTS
    Writes,            \* the records that are inserted, each once
    Sink,              \* is object storage configured
    Snapshots,         \* is snapshotTriggerSize # 0
    MaxTx,             \* bound: transactions begun
    MaxBlocks,         \* bound: blocks of the table in one run of the process
    MaxCrashes         \* bound: crashes

ASSUME DBAssumption ==
    /\ Sink \in BOOLEAN
    /\ Snapshots \in BOOLEAN
    /\ MaxTx \in Nat
    /\ MaxBlocks \in Nat
    /\ MaxCrashes \in Nat

VARIABLES
    tx,                \* DB.tx
    dpc,               \* what the database is doing: recovery steps, or open
    blocks,            \* the table's blocks, in order of creation
    active,            \* Table.active, as a position in blocks; 0 for no table
    fileWal,           \* is Table.wal the file WAL (or still the no-op one)
    lastCompleted,     \* Table.lastCompleted
    completedBlocks,   \* Table.completedBlocks
    snapshotInProgress,
    spc, stx,          \* the goroutine of asyncSnapshot and its transaction
    sblock,            \* the block that WriteSnapshot holds, 0 for none
    wpc, wblock, wtx,  \* each write's goroutine, its block, its transaction
    rec,               \* local variables of recover
    ulids,             \* the last ULID generated
    bucket,            \* object storage: block ULID to contents
    snapshots,         \* the valid files in the snapshots directory
    crashes,
    durable,           \* history: writes that have been in the log or a snapshot
    torn               \* history: writes that a snapshot has torn

table    == <<blocks, active, fileWal, lastCompleted, completedBlocks>>
snapper  == <<snapshotInProgress, spc, stx, sblock>>
writer   == <<wpc, wblock, wtx>>
storage  == <<bucket, snapshots>>
history  == <<durable, torn>>
dbVars   == <<tx, dpc, table, snapper, writer, rec, ulids, storage, crashes, history>>
vars     == <<walVars, dbVars>>

Contents == [Writes -> Nat]
Nothing  == [w \in Writes |-> 0]
NoRec    == [snapshotTx |-> 0, persisted |-> 0, at |-> 0, snapshot |-> FALSE,
             readOnly |-> FALSE]

NewBlock(ulid, prevTx, minTx, parts) ==
    [ulid |-> ulid, prevTx |-> prevTx, minTx |-> minTx, parts |-> parts,
     stage |-> "active", tx |-> 0, snapshot |-> FALSE]

NoBlock == NewBlock(0, 0, 0, Nothing)

NewTableBlock(ulid)       == [type |-> "block", of |-> ulid]
Write(w)                  == [type |-> "write", of |-> w]
TableBlockPersisted(ulid) == [type |-> "persisted", of |-> ulid]
SnapshotRecord(t)         == [type |-> "snapshot", of |-> t]

Goto(h, stage) == blocks' = [blocks EXCEPT ![h].stage = stage]

\* the end of writeBlock: nobody refers to the block any more
Release(h) == blocks' = [blocks EXCEPT ![h] = [NoBlock EXCEPT !.stage = "done"]]

\* the writes in the log store after this step
Logged == {log'[i].of : i \in {j \in DOMAIN log' : log'[j].type = "write"}}

Init ==
    /\ log = Empty /\ queue = {} /\ nextTx = 1 /\ truncateTx = 0
    /\ rpc = "new" /\ batch = Empty /\ taken = 0 /\ closing = FALSE /\ idle = FALSE
    /\ tx = 0
    /\ dpc = "load"
    /\ blocks = <<>> /\ active = 0 /\ fileWal = FALSE
    /\ lastCompleted = 0 /\ completedBlocks = <<>>
    /\ snapshotInProgress = FALSE /\ spc = "none" /\ stx = 0 /\ sblock = 0
    /\ wpc = [w \in Writes |-> "idle"]
    /\ wblock = [w \in Writes |-> 0]
    /\ wtx = [w \in Writes |-> 0]
    /\ rec = NoRec
    /\ ulids = 0
    /\ bucket = Empty
    /\ snapshots = {}
    /\ crashes = 0
    /\ durable = {} /\ torn = {}
-----------------------------------------------------------------------------
(***************************************************************************)
(* DB.begin.  The commit functions and the watermark are in module TxPool.  *)
(***************************************************************************)
Begin == tx < MaxTx /\ tx' = tx + 1

(***************************************************************************)
(* DB.Table on a table that does not exist, and RotateBlock.  Both hold a   *)
(* lock that a snapshot needs, so that no truncation can come between the   *)
(* begin and the log request.                                               *)
(***************************************************************************)
Table ==
    /\ dpc = "open"
    /\ active = 0
    /\ Begin
    /\ ulids' = ulids + 1
    /\ Log(tx', NewTableBlock(ulids'))
    /\ blocks' = Append(blocks, NewBlock(ulids', 0, tx', Nothing))
    /\ active' = Len(blocks')
    /\ fileWal' = TRUE
    /\ UNCHANGED <<dpc, lastCompleted, completedBlocks, snapper, writer, rec,
                   storage, crashes, history>>

RotateBlock ==
    /\ dpc = "open"
    /\ active # 0
    /\ Len(blocks) < MaxBlocks
    /\ Begin
    /\ ulids' = ulids + 1
    /\ Log(tx', NewTableBlock(ulids'))
    /\ blocks' = Append([blocks EXCEPT ![active].stage = "waiting",
                                       ![active].snapshot = TRUE],
                        NewBlock(ulids', blocks[active].minTx, tx', Nothing))
    /\ active' = Len(blocks')
    /\ UNCHANGED <<dpc, fileWal, lastCompleted, completedBlocks, snapper, writer, rec,
                   storage, crashes, history>>
-----------------------------------------------------------------------------
(***************************************************************************)
(* Table.InsertRecord: take the active block, begin, log, insert.           *)
(***************************************************************************)
Appender(w) ==
    /\ dpc = "open"
    /\ active # 0
    /\ wpc[w] = "idle"
    /\ wpc' = [wpc EXCEPT ![w] = "appending"]
    /\ wblock' = [wblock EXCEPT ![w] = active]
    /\ UNCHANGED <<walVars, tx, dpc, table, snapper, wtx, rec, ulids, storage,
                   crashes, history>>

BeginWrite(w) ==
    /\ wpc[w] = "appending"
    /\ Begin
    /\ wpc' = [wpc EXCEPT ![w] = "begun"]
    /\ wtx' = [wtx EXCEPT ![w] = tx']
    /\ UNCHANGED <<walVars, dpc, table, snapper, wblock, rec, ulids, storage,
                   crashes, history>>

LogWrite(w) ==
    /\ wpc[w] = "begun"
    /\ LogRecord(wtx[w], Write(w))
    /\ wpc' = [wpc EXCEPT ![w] = "logged"]
    /\ UNCHANGED <<tx, dpc, table, snapper, wblock, wtx, rec, ulids, storage,
                   crashes, history>>

InsertRecord(w) ==
    /\ wpc[w] = "logged"
    /\ blocks' = [blocks EXCEPT ![wblock[w]].parts[w] = @ + 1]
    /\ wpc' = [wpc EXCEPT ![w] = "done"]
    /\ wblock' = [wblock EXCEPT ![w] = 0]
    /\ UNCHANGED <<walVars, tx, dpc, active, fileWal, lastCompleted, completedBlocks,
                   snapper, wtx, rec, ulids, storage, crashes, history>>
-----------------------------------------------------------------------------
(***************************************************************************)
(* Table.writeBlock, a goroutine per rotated block.  During recovery the    *)
(* table of a loaded snapshot still has the no-op WAL.                      *)
(***************************************************************************)
\* has ActiveWriteBlock handed out h to somebody who is not done
Writing(h) ==
    \/ \E w \in Writes : wblock[w] = h /\ wpc[w] \in {"appending", "begun", "logged"}
    \/ sblock = h

\* the bucket gets the file of a block, in place of one of the same name
Upload(ulid, parts) ==
    bucket' = [u \in DOMAIN bucket \union {ulid} |-> IF u = ulid THEN parts ELSE bucket[u]]

\* pendingWritersWg.Wait, then Persist: without a sink it does nothing
Persist(h) ==
    /\ blocks[h].stage = "waiting"
    /\ ~Writing(h)
    /\ IF Sink THEN Upload(blocks[h].ulid, blocks[h].parts) ELSE UNCHANGED bucket
    /\ Goto(h, "persisted")
    /\ UNCHANGED <<walVars, tx, dpc, active, fileWal, lastCompleted, completedBlocks,
                   snapper, writer, rec, ulids, snapshots, crashes, history>>

\* an upload that fails leaves no file, and writeBlock drops the block
PersistFails(h) ==
    /\ Sink
    /\ blocks[h].stage = "waiting"
    /\ ~Writing(h)
    /\ Release(h)
    /\ UNCHANGED <<walVars, tx, dpc, active, fileWal, lastCompleted, completedBlocks,
                   snapper, writer, rec, ulids, storage, crashes, history>>

\* dropPendingBlock and begin
DropBlock(h) ==
    /\ blocks[h].stage = "persisted"
    /\ Begin
    /\ blocks' = [blocks EXCEPT ![h].stage = "dropped", ![h].tx = tx']
    /\ UNCHANGED <<walVars, dpc, active, fileWal, lastCompleted, completedBlocks,
                   snapper, writer, rec, ulids, storage, crashes, history>>

LogPersisted(h) ==
    /\ blocks[h].stage = "dropped"
    /\ IF fileWal THEN Log(blocks[h].tx, TableBlockPersisted(blocks[h].ulid))
                  ELSE UNCHANGED walVars
    /\ Goto(h, "logged")
    /\ UNCHANGED <<tx, dpc, active, fileWal, lastCompleted, completedBlocks,
                   snapper, writer, rec, ulids, storage, crashes, history>>

\* a block's place among the completed ones, which are sorted by prevTx
Insert(done, block) ==
    LET k == Max({i \in 0..Len(done) : \A j \in 1..i : done[j].prevTx <= block.prevTx}) IN
    SubSeq(done, 1, k) \o <<block>> \o SubSeq(done, k + 1, Len(done))

\* how many of the sorted completed blocks follow on from lastCompleted
Following(done) ==
    Max({n \in 0..Len(done) :
            \A i \in 1..n : done[i].prevTx = IF i = 1 THEN lastCompleted ELSE done[i - 1].tx})

\* mutant: a block that completes before an older one truncates the log
CompleteAnyOrder(h) ==
    /\ blocks[h].stage = "logged"
    /\ lastCompleted' = blocks[h].minTx
    /\ IF dpc = "open" THEN Truncate(lastCompleted') ELSE UNCHANGED walVars
    /\ Goto(h, "completed")
    /\ UNCHANGED <<tx, dpc, active, fileWal, completedBlocks, snapper, writer, rec, ulids,
                   storage, crashes, history>>

\* mutant: maintainWAL truncates the log up to the record of the block that was persisted
CompletePersisted(h) ==
    LET done == Insert(completedBlocks, [prevTx |-> blocks[h].prevTx, tx |-> blocks[h].minTx])
        n    == Following(done)
    IN
    /\ blocks[h].stage = "logged"
    /\ lastCompleted' = IF n = 0 THEN lastCompleted ELSE done[n].tx
    /\ completedBlocks' = SubSeq(done, n + 1, Len(done))
    /\ IF lastCompleted' > 0 /\ dpc = "open" THEN Truncate(blocks[h].tx) ELSE UNCHANGED walVars
    /\ Goto(h, "completed")
    /\ UNCHANGED <<tx, dpc, active, fileWal, snapper, writer, rec, ulids, storage,
                   crashes, history>>

\* completedBlocks and lastCompleted, then maintainWAL; db.wal is the no-op WAL
\* until the database is open
Complete(h) ==
    LET block == [prevTx |-> blocks[h].prevTx, tx |-> blocks[h].minTx]
        done  == Insert(completedBlocks, block)
        n     == Following(done)
    IN
    /\ blocks[h].stage = "logged"
    /\ lastCompleted' = IF n = 0 THEN lastCompleted ELSE done[n].tx
    /\ completedBlocks' = SubSeq(done, n + 1, Len(done))
    /\ IF lastCompleted' > 0 /\ dpc = "open" THEN Truncate(lastCompleted')
                                             ELSE UNCHANGED walVars
    /\ Goto(h, "completed")
    /\ UNCHANGED <<tx, dpc, active, fileWal, snapper, writer, rec, ulids, storage,
                   crashes, history>>
-----------------------------------------------------------------------------
(***************************************************************************)
(* Snapshots.  WriteSnapshot takes the active block and then reads it as it *)
(* is, whatever the transaction of the snapshot.  A file that is not        *)
(* complete is no valid snapshot, so writing it is one step.                *)
(***************************************************************************)
SnapshotAtTx(t, h) ==
    LET b == IF h = 0 THEN NoBlock ELSE blocks[h] IN
    [tx |-> t, ulid |-> b.ulid, prevTx |-> b.prevTx, minTx |-> b.minTx, parts |-> b.parts]

\* the writes that a snapshot of block h holds
Held(h) == {w \in Writes : SnapshotAtTx(0, h).parts[w] > 0}

\* the writes on the wrong side of a snapshot of block h at transaction t:
\* earlier ones that it lacks and later ones that it has
Torn(t, h) ==
    {w \in Writes : \/ wpc[w] \in {"begun", "logged"} /\ wtx[w] < t
                    \/ w \in Held(h) /\ wtx[w] > t}

Latest == CHOOSE s \in snapshots : \A r \in snapshots : r.tx <= s.tx

\* a snapshot of sblock at t is complete
Written(t) ==
    /\ snapshots' = snapshots \union {SnapshotAtTx(t, sblock)}
    /\ torn' = torn \union Torn(t, sblock)
    /\ durable' = durable \union Held(sblock)

\* mutant: the log is truncated at the current transaction
ReclaimPastSnapshot ==
    IF snapshots = {}
    THEN UNCHANGED <<walVars, snapshots>>
    ELSE snapshots' = {Latest} /\ Truncate(tx)

ReclaimDiskSpace ==
    IF snapshots = {}
    THEN UNCHANGED <<walVars, snapshots>>
    ELSE /\ snapshots' = {Latest}
         /\ Truncate(Latest.tx)

\* writeBlock's own snapshot, at the transaction of the persisted record
SnapshotOnRotation(h) ==
    /\ blocks[h].stage = "completed"
    /\ IF blocks[h].snapshot /\ Snapshots /\ ~snapshotInProgress
       THEN /\ snapshotInProgress' = TRUE
            /\ sblock' = active
            /\ Goto(h, "snapshot")
       ELSE /\ Release(h)
            /\ UNCHANGED <<snapshotInProgress, sblock>>
    /\ UNCHANGED <<walVars, tx, dpc, active, fileWal, lastCompleted, completedBlocks,
                   spc, stx, writer, rec, ulids, storage, crashes, history>>

\* an error is only logged
WriteOnRotation(h) ==
    /\ blocks[h].stage = "snapshot"
    /\ Written(blocks[h].tx) \/ UNCHANGED <<snapshots, history>>
    /\ sblock' = 0
    /\ Goto(h, "reclaim")
    /\ UNCHANGED <<walVars, tx, dpc, active, fileWal, lastCompleted, completedBlocks,
                   snapshotInProgress, spc, stx, writer, rec, ulids, bucket, crashes>>

ReclaimOnRotation(h) ==
    /\ blocks[h].stage = "reclaim"
    /\ ReclaimDiskSpace
    /\ snapshotInProgress' = FALSE
    /\ Release(h)
    /\ UNCHANGED <<tx, dpc, active, fileWal, lastCompleted, completedBlocks,
                   spc, stx, sblock, writer, rec, ulids, bucket, crashes, history>>

\* asyncSnapshot, which appender calls when the active block has grown enough
AsyncSnapshot ==
    /\ dpc = "open"
    /\ Snapshots
    /\ active # 0
    /\ ~snapshotInProgress
    /\ Begin
    /\ snapshotInProgress' = TRUE
    /\ spc' = "log"
    /\ stx' = tx'
    /\ UNCHANGED <<walVars, dpc, table, sblock, writer, rec, ulids, storage, crashes, history>>

\* mutant: a snapshot's transaction leaves no record in the log
LogSnapshotNever ==
    /\ spc = "log"
    /\ spc' = "take"
    /\ UNCHANGED <<walVars, tx, dpc, table, snapshotInProgress, stx, sblock, writer, rec,
                   ulids, storage, crashes, history>>

LogSnapshot ==
    /\ spc = "log"
    /\ Log(stx, SnapshotRecord(stx))
    /\ spc' = "take"
    /\ UNCHANGED <<tx, dpc, table, snapshotInProgress, stx, sblock, writer, rec, ulids,
                   storage, crashes, history>>

TakeBlock ==
    /\ spc = "take"
    /\ sblock' = active
    /\ spc' = "write"
    /\ UNCHANGED <<walVars, tx, dpc, table, snapshotInProgress, stx, writer, rec, ulids,
                   storage, crashes, history>>

WriteSnapshot ==
    /\ spc = "write"
    /\ Written(stx)
    /\ sblock' = 0
    /\ spc' = "reclaim"
    /\ UNCHANGED <<walVars, tx, dpc, table, snapshotInProgress, stx, writer, rec, ulids,
                   bucket, crashes>>

WriteSnapshotFails ==
    /\ spc = "write"
    /\ sblock' = 0
    /\ spc' = "none"
    /\ stx' = 0
    /\ snapshotInProgress' = FALSE
    /\ UNCHANGED <<walVars, tx, dpc, table, writer, rec, ulids, storage, crashes, history>>

\* onSuccess
ReclaimOnSnapshot ==
    /\ spc = "reclaim"
    /\ ReclaimDiskSpace
    /\ spc' = "none"
    /\ stx' = 0
    /\ snapshotInProgress' = FALSE
    /\ UNCHANGED <<tx, dpc, table, sblock, writer, rec, ulids, bucket, crashes, history>>
-----------------------------------------------------------------------------
(***************************************************************************)
(* A crash loses everything but the log store, the snapshots and the        *)
(* bucket.  ColumnStore.DB then opens the WAL and recovers.                 *)
(***************************************************************************)
Crash ==
    /\ crashes < MaxCrashes
    /\ dpc # "load"
    /\ crashes' = crashes + 1
    /\ Open(log)
    /\ tx' = 0
    /\ dpc' = "load"
    /\ blocks' = <<>> /\ active' = 0 /\ fileWal' = FALSE
    /\ lastCompleted' = 0 /\ completedBlocks' = <<>>
    /\ snapshotInProgress' = FALSE /\ spc' = "none" /\ stx' = 0 /\ sblock' = 0
    /\ wpc' = [w \in Writes |-> IF wpc[w] = "idle" THEN "idle" ELSE "done"]
    /\ wblock' = [w \in Writes |-> 0]
    /\ wtx' = [w \in Writes |-> 0]
    /\ rec' = NoRec
    /\ UNCHANGED <<ulids, storage, history>>

\* the transactions of the persisted records that replaying from t meets
PersistedFrom(t) == {i \in ReplayRange(t) : log[i].type = "persisted"}

\* loadSnapshot: the table with the block that was active
Loaded(s) == NewBlock(s.ulid, s.prevTx, s.minTx, s.parts)

\* mutant: the log is replayed from its start, not from the snapshot
LoadSnapshotReplaysAll ==
    LET t == IF snapshots = {} THEN 0 ELSE Latest.tx IN
    /\ dpc = "load"
    /\ dpc' = "replay"
    /\ rec' = [snapshotTx |-> t, persisted |-> Max(PersistedFrom(t) \union {0}),
               at |-> ReplayFrom(0), snapshot |-> FALSE, readOnly |-> DOMAIN bucket # {}]
    /\ tx' = t
    /\ IF t = 0 \/ Latest.ulid = 0
       THEN UNCHANGED <<blocks, active>>
       ELSE /\ blocks' = <<Loaded(Latest)>>
            /\ active' = 1
    /\ ReclaimDiskSpace
    /\ UNCHANGED <<fileWal, lastCompleted, completedBlocks, snapper, writer, ulids,
                   bucket, crashes, history>>

(***************************************************************************)
(* recover, up to its second replay: load the latest snapshot, delete the   *)
(* others, and replay the log to find the last persisted record.  One after *)
(* the snapshot empties the block that the snapshot loaded.                 *)
(***************************************************************************)
LoadSnapshot ==
    LET t         == IF snapshots = {} THEN 0 ELSE Latest.tx
        persisted == Max(PersistedFrom(t) \union {0})
        block     == IF persisted > t THEN [Loaded(Latest) EXCEPT !.parts = Nothing]
                                      ELSE Loaded(Latest)
    IN
    /\ dpc = "load"
    /\ dpc' = "replay"
    /\ rec' = [snapshotTx |-> t, persisted |-> persisted,
               at |-> ReplayFrom(t), snapshot |-> FALSE,
               readOnly |-> DOMAIN bucket # {}]
    /\ tx' = t
    /\ IF t = 0 \/ Latest.ulid = 0
       THEN UNCHANGED <<blocks, active>>
       ELSE /\ blocks' = <<block>>
            /\ active' = 1
    /\ ReclaimDiskSpace
    /\ UNCHANGED <<fileWal, lastCompleted, completedBlocks, snapper, writer, ulids,
                   bucket, crashes, history>>

\* mutant: a block that was finished but not persisted is replaced by the next
ReplayBlockReplaces(r) ==
    /\ r.type = "block"
    /\ blocks' = <<NewBlock(r.of, 0, rec.at, Nothing)>>
    /\ active' = 1
    /\ fileWal' = ~rec.readOnly
    /\ rec' = [rec EXCEPT !.at = @ + 1]
    /\ UNCHANGED wpc

(***************************************************************************)
(* The second replay, one record at a time.  A write is inserted by a       *)
(* goroutine of its own, which looks up the active block when it gets that  *)
(* far.  A table of which the bucket has blocks exists as a read-only table *)
(* before recovery, with the no-op WAL, and is promoted.                    *)
(***************************************************************************)
ReplayBlock(r) ==
    /\ r.type = "block"
    /\ IF active = 0
       THEN /\ blocks' = <<NewBlock(r.of, 0, rec.at, Nothing)>>
            /\ active' = 1
            /\ fileWal' = ~rec.readOnly
       ELSE /\ blocks' = Append([blocks EXCEPT ![active].stage = "waiting"],
                                NewBlock(r.of, blocks[active].minTx, rec.at, Nothing))
            /\ active' = Len(blocks')
            /\ UNCHANGED fileWal
    /\ rec' = [rec EXCEPT !.at = @ + 1]
    /\ UNCHANGED wpc

ReplayWrite(r) ==
    /\ r.type = "write"
    /\ active # 0
    /\ wpc' = [wpc EXCEPT ![r.of] = "replaying"]
    /\ rec' = [rec EXCEPT !.at = @ + 1]
    /\ UNCHANGED <<blocks, active, fileWal>>

\* persisted already, a write to a table that is not there, or another record
ReplaySkip(r) ==
    /\ \/ r.type \in {"block", "write"} /\ rec.at < rec.persisted
       \/ r.type = "write" /\ active = 0
       \/ r.type \in {"persisted", "snapshot"}
    /\ rec' = [rec EXCEPT !.at = @ + 1,
                          !.snapshot = @ \/ r.type = "persisted"]
    /\ UNCHANGED <<blocks, active, fileWal, wpc>>

Replay ==
    /\ dpc = "replay"
    /\ rec.at \in DOMAIN log
    /\ \/ ReplaySkip(log[rec.at])
       \/ rec.at >= rec.persisted /\ (ReplayBlock(log[rec.at]) \/ ReplayWrite(log[rec.at]))
    /\ UNCHANGED <<walVars, tx, dpc, lastCompleted, completedBlocks, snapper, wblock, wtx,
                   ulids, storage, crashes, history>>

ReplayLookup(w) ==
    /\ wpc[w] = "replaying"
    /\ wpc' = [wpc EXCEPT ![w] = "inserting"]
    /\ wblock' = [wblock EXCEPT ![w] = active]
    /\ UNCHANGED <<walVars, tx, dpc, table, snapper, wtx, rec, ulids, storage,
                   crashes, history>>

ReplayInsert(w) ==
    /\ wpc[w] = "inserting"
    /\ blocks' = [blocks EXCEPT ![wblock[w]].parts[w] = @ + 1]
    /\ wpc' = [wpc EXCEPT ![w] = "done"]
    /\ wblock' = [wblock EXCEPT ![w] = 0]
    /\ UNCHANGED <<walVars, tx, dpc, active, fileWal, lastCompleted, completedBlocks,
                   snapper, wtx, rec, ulids, storage, crashes, history>>

\* writeWg.Wait and resetToTxn
ResetToTxn ==
    /\ dpc = "replay"
    /\ rec.at \notin DOMAIN log
    /\ \A w \in Writes : wpc[w] \notin {"replaying", "inserting"}
    /\ tx' = Max({rec.snapshotTx} \union DOMAIN log)
    /\ dpc' = IF rec.snapshot /\ Snapshots THEN "snapshot" ELSE "start"
    /\ UNCHANGED <<walVars, table, snapper, writer, rec, ulids, storage, crashes, history>>

\* the snapshot after recovery, which may fail: its record goes to db.wal, still
\* the no-op WAL
RecoverySnapshot ==
    /\ dpc = "snapshot"
    /\ tx' = tx + 1
    /\ \/ /\ snapshots' = snapshots \union {SnapshotAtTx(tx', active)}
          /\ dpc' = "reclaim"
       \/ /\ UNCHANGED snapshots
          /\ dpc' = "start"
    /\ UNCHANGED <<walVars, table, snapper, writer, rec, ulids, bucket, crashes, history>>

RecoveryReclaim ==
    /\ dpc = "reclaim"
    /\ ReclaimDiskSpace
    /\ dpc' = "start"
    /\ UNCHANGED <<tx, table, snapper, writer, rec, ulids, bucket, crashes, history>>

\* openWAL starts the run loop and the database and its tables get the file WAL
Start ==
    /\ dpc = "start"
    /\ RunAsync
    /\ dpc' = "open"
    /\ fileWal' = (active # 0)
    /\ rec' = NoRec
    /\ UNCHANGED <<tx, blocks, active, lastCompleted, completedBlocks, snapper, writer,
                   ulids, storage, crashes, history>>
-----------------------------------------------------------------------------
WALStep ==
    /\ RunStep
    /\ durable' = durable \union Logged
    /\ UNCHANGED <<tx, dpc, table, snapper, writer, rec, ulids, storage, crashes, torn>>

WriteStep(w) == BeginWrite(w) \/ LogWrite(w) \/ InsertRecord(w)

BlockStep(h) ==
    \/ Persist(h) \/ PersistFails(h) \/ DropBlock(h) \/ LogPersisted(h) \/ Complete(h)
    \/ SnapshotOnRotation(h) \/ WriteOnRotation(h) \/ ReclaimOnRotation(h)

SnapshotStep ==
    LogSnapshot \/ TakeBlock \/ WriteSnapshot \/ WriteSnapshotFails \/ ReclaimOnSnapshot

RecoveryStep ==
    \/ LoadSnapshot \/ Replay \/ ResetToTxn \/ RecoverySnapshot \/ RecoveryReclaim \/ Start
    \/ \E w \in Writes : ReplayLookup(w) \/ ReplayInsert(w)

Next ==
    \/ Table \/ RotateBlock
    \/ \E w \in Writes : Appender(w) \/ WriteStep(w)
    \/ \E h \in DOMAIN blocks : BlockStep(h)
    \/ AsyncSnapshot \/ SnapshotStep
    \/ WALStep
    \/ Crash \/ RecoveryStep

Spec == Init /\ [][Next]_vars

(***************************************************************************)
(* Goroutines that have started do run: a writer that has begun, the run    *)
(* loop of the log, a block that has been persisted, a snapshot, recovery.  *)
(* Nothing makes a client write, and an upload may take forever.            *)
(***************************************************************************)
Fairness ==
    /\ \A w \in Writes : WF_vars(LogWrite(w)) /\ WF_vars(InsertRecord(w))
    /\ \A h \in 1..MaxBlocks : WF_vars(h \in DOMAIN blocks /\ LogPersisted(h))
    /\ WF_vars(LogSnapshot)
    /\ WF_vars(WALStep)
    /\ WF_vars(RecoveryStep)

FairSpec == Spec /\ Fairness
-----------------------------------------------------------------------------
(***************************************************************************)
(* Properties.                                                              *)
(***************************************************************************)

\* where a write can be found again after a crash
InLog(w)      == \E i \in DOMAIN log : log[i] = Write(w)
Queued(w)     == \E e \in queue : e.data = Write(w)
InBucket(w)   == \E u \in DOMAIN bucket : bucket[u][w] > 0
InSnapshot(w) == snapshots # {} /\ Latest.parts[w] > 0
Durable(w)    == InLog(w) \/ InBucket(w) \/ InSnapshot(w)

\* a write is in a block in memory, and in no more than one, once
InMemory(w) == \E h \in DOMAIN blocks : blocks[h].parts[w] > 0
AtMostOnce(w) ==
    \A h, g \in DOMAIN blocks :
        blocks[h].parts[w] > 0 /\ blocks[g].parts[w] > 0 => h = g /\ blocks[h].parts[w] = 1

\* the table has had one block only
NeverRotated == ulids <= 1

\* Durability across truncation: a write that has been in the log or in a
\* snapshot is still in the log, in the latest snapshot or in object storage, so
\* that what writeBlock's maintainWAL and reclaimDiskSpace truncate is covered.
\* It is claimed as long as the table has had one block (with snapshots, crashes
\* and recoveries), and with any number of blocks of one process without
\* snapshots, if there is object storage to keep the blocks that are rotated.
\* The writes that a snapshot tears are left out; SnapshotCovers is about them.
Recoverable ==
    NeverRotated \/ (Sink /\ crashes = 0 /\ ~Snapshots) =>
        \A w \in durable \ torn : Durable(w)

\* Recovery is exact: no write is replayed into memory twice, and while the table
\* has had one block every write that was durable is in it again and every other
\* write is not, whatever the order in which the replayed inserts finish.
RecoveredOnce ==
    dpc = "start" =>
        \A w \in Writes \ torn :
            /\ AtMostOnce(w)
            /\ NeverRotated => (InMemory(w) <=> w \in durable)

\* Blocks that were rotated but not recorded as persisted survive the first crash:
\* when replay meets no persisted record, every durable write is in one of the
\* recovered blocks or has been uploaded, as long as recovery has not released
\* one of them.
BlocksRecovered ==
    dpc = "start" /\ crashes <= 1 /\ rec.persisted = 0 /\ Sink /\ ~Snapshots
    /\ (\A h \in DOMAIN blocks : blocks[h].stage # "done") =>
        \A w \in durable : InMemory(w) \/ InBucket(w)

\* The log starts no later than right after the latest snapshot or the last block
\* of the completed ones, whichever is later: recovery finds no other gap between
\* the snapshot it loads and the records it replays, in spite of two sources of
\* truncations (reclaimDiskSpace, maintainWAL) and snapshots that overtake each
\* other.
SnapshotMeetsLog ==
    (crashes = 0 \/ NeverRotated) /\ snapshots # {} /\ log # Empty =>
        FirstIndex(log) <= Max({Latest.tx, lastCompleted}) + 1

\* Before any crash the log does not deadlock: "the WAL expects a 1:1
\* relationship between txn ids and record indexes" (snapshot.go), and writers,
\* rotations, persisted blocks and snapshots together never leave a hole that
\* keeps a queued write from being taken out of the queue.
LogDrains ==
    \A w \in Writes :
        (crashes = 0 /\ Queued(w)) ~> (~Queued(w) \/ crashes > 0)

\* design/wal.md, scenario 1: "Only the table block with the ID2 was incomplete,
\* therefore it is replayed, and the two transactions t11 and t12 are replayed
\* into that table block."  After recovery every write that was in the log is in
\* memory or in object storage.
RotationRecovered ==
    dpc = "start" /\ (\A h \in DOMAIN blocks : blocks[h].stage # "done") =>
        \A w \in durable : InMemory(w) \/ InBucket(w)

\* design/snapshots.md: "the WAL can be safely truncated at the transaction a
\* snapshot occurred".
SnapshotCovers == \A w \in durable : Durable(w)

\* snapshotAtTX "takes a snapshot of the state of the database at transaction tx"
\* and replay continues from tx, so that no write is in memory twice.
NoDuplicates == dpc = "start" => \A w \in Writes : AtMostOnce(w)

\* db_test.go: "The ability to write and expect a WAL record to be logged is
\* vital on database recovery."  A queued write leaves the queue, also after a
\* recovery.
LogNeverStuck ==
    \A w \in Writes : \A n \in 0..MaxCrashes :
        (crashes = n /\ Queued(w)) ~> (~Queued(w) \/ crashes > n)
=============================================================================
