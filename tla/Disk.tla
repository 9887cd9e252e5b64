-------------------------------- MODULE Disk --------------------------------
(***************************************************************************)
(* What a database has on disk (snapshot.go, wal/wal.go, DB.recover in      *)
(* db.go): the bytes of its snapshot files and of the records in its log.   *)
(* Module DB takes a snapshot for one step and a file for valid or not      *)
(* there; here a snapshot is written piece by piece, may fail, be torn by a *)
(* crash or damaged later, and is read back.                                *)
(*                                                                         *)
(* A behaviour is one life of the database and the recovery after it, which *)
(* may itself be interrupted.  What a previous life left behind is what a   *)
(* failed snapshot may leave in this one.                                   *)
(*                                                                         *)
(* The tables do not change while a snapshot of them is written (what a     *)
(* concurrent writer does to it is in module DB).  The file system is       *)
(* external: a file is a sequence of bytes, and a crash may keep any prefix *)
(* of one that has not been synced.                                         *)
(***************************************************************************)
EXTENDS SnapshotCodec, WALCodec, Functions

CONSTANTS
    Contents,          \* what the database may hold: table names to tables
    Later,             \* those that a later version of the program takes snapshots of
    MaxChanges,        \* bound: how often what it holds changes
    MaxSnapshots,      \* bound: snapshots that are started
    Stride,            \* bound: every how many bytes a file may be damaged
    MaxFaults          \* bound: writes that fail, torn and damaged files, failed reads

VARIABLES
    tables,            \* DB.tables: table names to tables, while the database is open
    log, base,         \* the log: encoded records, from index base + 1
    dir,               \* the snapshots directory: transactions to bytes
    writer,            \* the snapshot in progress
    loader,            \* DB.recover
    changes, taken, faults,    \* how often the bounded actions have happened
    logged,            \* history: the records logged, from index 1
    whole              \* history: snapshots written to the end, with what they hold

vars == <<tables, log, base, dir, writer, loader, changes, taken, faults, logged, whole>>

LastIndex == base + Len(log)

Idle == [pc |-> "idle"]
Up   == [pc |-> "up"]
-----------------------------------------------------------------------------
(***************************************************************************)
(* FileWAL.Log: the record is encoded into a buffer of SizeVT bytes.        *)
(***************************************************************************)
EncodeRecord(r) == MarshalToSizedBuffer(SizeRecord(r), MarshalRecord(r))

DecodeRecord(bs) == Unmarshal(SetRecord, ZeroRecord, bs)

Entry(kind, msg) ==
    [ZeroRecord EXCEPT !.entry = [ZeroEntry EXCEPT !.entryType = [kind |-> kind, msg |-> msg]]]

SnapshotEntry(t) == Entry("snapshot", [ZeroSnapshot EXCEPT !.tx = t])

NewTableBlockEntry(name, t) ==
    Entry("newTableBlock", [ZeroNewTableBlock EXCEPT !.tableName = name, !.blockId = t.ulid,
                                                     !.config = t.config])

PersistedEntry(name, t) ==
    Entry("tableBlockPersisted", [ZeroTableBlockPersisted EXCEPT !.tableName = name,
                                                                 !.blockId = t.ulid])

(***************************************************************************)
(* The formats of parts belong to libraries: an Arrow stream and a Parquet  *)
(* file, whose readers refuse what is not one.                              *)
(***************************************************************************)
ArrowStream(data) == <<255, 255, Len(data)>> \o data
ParquetFile(data) == <<80, 65>> \o data \o <<80, 65>>

\* LogRecord: writes are logged as Arrow, whatever becomes of them later
WriteEntry(name, p) ==
    Entry("write", [ZeroWrite EXCEPT !.tableName = name, !.data = ArrowStream(p.data),
                                     !.arrow = TRUE])

\* what a table logged on its way to what it is now
TableEntries(name, t) ==
    <<NewTableBlockEntry(name, t)>>
    \o [i \in DOMAIN t.parts |-> WriteEntry(name, t.parts[i])]
    \o (IF t.prevTx = 0 THEN <<>> ELSE <<PersistedEntry(name, t)>>)

Log(rs) ==
    /\ logged' = logged \o rs
    /\ log' = log \o [i \in DOMAIN rs |-> EncodeRecord(rs[i])]

\* FileWAL.Truncate, with what the run loop then does
Truncate(t) ==
    /\ base' = Max({base, t - 1})
    /\ log' = SubSeq(log, Max({base, t - 1}) - base + 1, Len(log))

\* the database comes to hold c
Change(c) ==
    /\ loader = Up /\ writer = Idle
    /\ changes < MaxChanges
    /\ c # tables
    /\ changes' = changes + 1
    /\ tables' = c
    /\ Log(FoldLeft(LAMBDA rs, name : rs \o TableEntries(name, c[name]), <<>>,
                    SetToSeq(DOMAIN c)))
    /\ UNCHANGED <<base, dir, writer, loader, taken, faults, whole>>
-----------------------------------------------------------------------------
ReadArrow(bs) ==
    IF Len(bs) >= 3 /\ bs = ArrowStream(SubSeq(bs, 4, Len(bs)))
    THEN [data |-> SubSeq(bs, 4, Len(bs)), arrow |-> TRUE] ELSE Error

ReadParquet(bs) ==
    IF Len(bs) >= 4 /\ bs = ParquetFile(SubSeq(bs, 3, Len(bs) - 2))
    THEN [data |-> SubSeq(bs, 3, Len(bs) - 2), arrow |-> FALSE] ELSE Error

\* the checksum is a library's too
RECURSIVE Digest(_, _, _)
Digest(bs, i, j) ==
    IF i > j THEN 7
    ELSE IF i = j THEN bs[i] + 1
    ELSE (31 * Digest(bs, i, (i + j) \div 2) + 17 * Digest(bs, (i + j) \div 2 + 1, j) + j - i)
         % 16777213

Checksum(bs) == Digest(bs, 1, Len(bs))

LittleEndian(n) == <<n % 256, (n \div 256) % 256, (n \div 65536) % 256, n \div 16777216>>
Uint32(bs)      == bs[1] + 256 * bs[2] + 65536 * bs[3] + 16777216 * bs[4]

snapshotMagic   == <<70, 68, 66, 83>>
snapshotVersion == 1
minReadVersion  == 1

ENCODING_PARQUET == 1
ENCODING_ARROW   == 2

EncodedPart(p) == IF p.arrow THEN ArrowStream(p.data) ELSE ParquetFile(p.data)

PartMeta(p, offset) ==
    [ZeroPart EXCEPT !.startOffset = offset, !.endOffset = offset + Len(EncodedPart(p)),
                     !.tx = p.tx, !.compactionLevel = p.level,
                     !.encoding = IF p.arrow THEN ENCODING_ARROW ELSE ENCODING_PARQUET]

TableMeta(name, t) ==
    [ZeroTable EXCEPT !.name = name, !.config = t.config,
                      !.activeBlock = [ulid |-> t.ulid, size |-> t.size, minTx |-> t.minTx,
                                       prevTx |-> t.prevTx, unknown |-> <<>>]]

(***************************************************************************)
(* A later version of the program adds fields, of any wire type, which get  *)
(* numbers that are not in use here.                                        *)
(***************************************************************************)
Extra(m, fields) == [m EXCEPT !.unknown = fields]

Number == <<8 * 15, 1>>
Fixed  == <<8 * 13 + 5, 1, 2, 3, 4>> \o <<8 * 12 + 1, 1, 2, 3, 4, 5, 6, 7, 8>>
Nested == <<8 * 11 + 3, 8, 128, 1, 8 * 11 + 4>> \o <<8 * 14 + 2, 2, 9, 9>>

LaterGranule(m) ==
    Extra([m EXCEPT !.partMetadata = [i \in DOMAIN @ |-> Extra(@[i], Number)]], Number)

LaterTable(m) ==
    Extra([m EXCEPT !.config = Extra(@, Number), !.activeBlock = Extra(@, Fixed),
                    !.granuleMetadata = [i \in DOMAIN @ |-> LaterGranule(@[i])]],
          Number)

FooterOf(metas, later) ==
    IF later THEN Extra([tableMetadata |-> [i \in DOMAIN metas |-> LaterTable(metas[i])],
                         unknown |-> <<>>], Nested)
    ELSE [tableMetadata |-> metas, unknown |-> <<>>]

EncodeFooter(m) == MarshalVT(SizeFooterData(m), MarshalFooterData(m))
-----------------------------------------------------------------------------
(***************************************************************************)
(* snapshot, snapshotAtTX and WriteSnapshot.  The range over the map of     *)
(* tables takes them in any order.                                          *)
(***************************************************************************)
StartSnapshot(order) ==
    /\ loader = Up /\ writer = Idle
    /\ taken < MaxSnapshots
    /\ taken' = taken + 1
    /\ Log(<<SnapshotEntry(LastIndex + 1)>>)
    /\ dir' = (LastIndex + 1) :> <<>> @@ dir
    /\ writer' = [pc |-> "magic", tx |-> LastIndex + 1, order |-> order, metas |-> <<>>,
                  later |-> tables \in Later]
    /\ UNCHANGED <<tables, base, loader, changes, faults, whole>>

At(pc) == writer.pc = pc

Goto(pc) == writer' = [writer EXCEPT !.pc = pc]

File == dir[writer.tx]

\* offsetWriter.Write
Write(bs) == dir' = [dir EXCEPT ![writer.tx] = @ \o bs]

WriteMagic ==
    /\ At("magic")
    /\ Write(snapshotMagic)
    /\ Goto("table")
    /\ UNCHANGED <<tables, log, base, loader, changes, taken, faults, logged, whole>>

WriteTable ==
    /\ At("table")
    /\ Len(writer.metas) < Len(writer.order)
    /\ LET name == writer.order[Len(writer.metas) + 1] IN
       writer' = [writer EXCEPT !.pc = "parts",
                                !.metas = Append(@, TableMeta(name, tables[name]))]
    /\ UNCHANGED <<tables, log, base, dir, loader, changes, taken, faults, logged, whole>>

CurrentParts == tables[writer.order[Len(writer.metas)]].parts
PartsWritten == Len(writer.metas[Len(writer.metas)].granuleMetadata)

WritePart ==
    /\ At("parts")
    /\ PartsWritten < Len(CurrentParts)
    /\ LET p == CurrentParts[PartsWritten + 1] IN
       /\ Write(EncodedPart(p))
       /\ writer' = [writer EXCEPT !.metas[Len(writer.metas)].granuleMetadata =
                        Append(@, [ZeroGranule EXCEPT !.partMetadata =
                                      <<PartMeta(p, Len(File))>>])]
    /\ UNCHANGED <<tables, log, base, loader, changes, taken, faults, logged, whole>>

TableWritten ==
    /\ At("parts")
    /\ PartsWritten = Len(CurrentParts)
    /\ Goto("table")
    /\ UNCHANGED <<tables, log, base, dir, loader, changes, taken, faults, logged, whole>>

WriteFooter ==
    /\ At("table")
    /\ Len(writer.metas) = Len(writer.order)
    /\ \E footer \in {EncodeFooter(FooterOf(writer.metas, writer.later))} :
           Write(footer \o LittleEndian(Len(footer)))
    /\ Goto("version")
    /\ UNCHANGED <<tables, log, base, loader, changes, taken, faults, logged, whole>>

WriteVersion ==
    /\ At("version")
    /\ Write(LittleEndian(snapshotVersion))
    /\ Goto("checksum")
    /\ UNCHANGED <<tables, log, base, loader, changes, taken, faults, logged, whole>>

WriteChecksum ==
    /\ At("checksum")
    /\ Write(LittleEndian(Checksum(File)))
    /\ Goto("end")
    /\ UNCHANGED <<tables, log, base, loader, changes, taken, faults, logged, whole>>

WriteEnd ==
    /\ At("end")
    /\ Write(snapshotMagic)
    /\ whole' = writer.tx :> [bytes |-> File \o snapshotMagic, tables |-> tables] @@ whole
    /\ Goto("sync")
    /\ UNCHANGED <<tables, log, base, loader, changes, taken, faults, logged>>

Sync ==
    /\ At("sync")
    /\ Goto("reclaim")
    /\ UNCHANGED <<tables, log, base, dir, loader, changes, taken, faults, logged, whole>>

Unsynced == {"magic", "table", "parts", "version", "checksum", "end", "sync"}

(***************************************************************************)
(* A write or the sync fails.  The file is removed, or that fails too; the  *)
(* snapshot of a rotation goes on to reclaim disk space all the same.       *)
(***************************************************************************)
SnapshotFails ==
    /\ writer.pc \in Unsynced
    /\ faults < MaxFaults
    /\ faults' = faults + 1
    /\ dir' \in {dir, Restrict(dir, DOMAIN dir \ {writer.tx})}
    /\ writer' \in {Idle, [writer EXCEPT !.pc = "reclaim"]}
    /\ UNCHANGED <<tables, log, base, loader, changes, taken, logged, whole>>
-----------------------------------------------------------------------------
(***************************************************************************)
(* readFooter: the footer, or Error.                                        *)
(***************************************************************************)
Trailer(bs) == SubSeq(bs, Len(bs) - 15, Len(bs))

\* mutant: the checksum of the file is not verified
AnyChecksum(bs, trailer) == TRUE

ChecksumValid(bs, trailer) ==
    SubSeq(trailer, 9, 12) = LittleEndian(Checksum(SubSeq(bs, 1, Len(bs) - 8)))

VersionSupported(trailer) ==
    Uint32(SubSeq(trailer, 5, 8)) \in minReadVersion .. snapshotVersion

FooterAt(bs, size) ==
    IF Len(bs) < 16 + size THEN Error
    ELSE Unmarshal(SetFooterData, ZeroFooterData,
                   SubSeq(bs, Len(bs) - 16 - size + 1, Len(bs) - 16))

readFooter(bs) ==
    IF /\ Len(bs) >= 16
       /\ SubSeq(bs, 1, 4) = snapshotMagic
       /\ SubSeq(Trailer(bs), 13, 16) = snapshotMagic
       /\ ChecksumValid(bs, Trailer(bs))
       /\ VersionSupported(Trailer(bs))
    THEN FooterAt(bs, Uint32(SubSeq(Trailer(bs), 1, 4)))
    ELSE Error

(***************************************************************************)
(* getLatestValidSnapshotTxn, and snapshotsDo's order: the latest first.    *)
(***************************************************************************)
\* mutant: every file counts, whether it can be read or not
AnyFile == DOMAIN dir

Valid == {t \in DOMAIN dir : readFooter(dir[t]) # Error}

LatestOf(txs) == IF txs = {} THEN 0 ELSE Max(txs)

\* reclaimDiskSpace
ReclaimDiskSpace ==
    /\ At("reclaim")
    /\ \E t \in {LatestOf(Valid)} :
           writer' = IF t = 0 THEN Idle ELSE [pc |-> "cleanup", tx |-> t]
    /\ UNCHANGED <<tables, log, base, dir, loader, changes, taken, faults, logged, whole>>

\* cleanupSnapshotDir, one file at a time
Others(t) == DOMAIN dir \ {t}

CleanupSnapshotDir ==
    /\ At("cleanup")
    /\ Others(writer.tx) # {}
    /\ dir' = Restrict(dir, DOMAIN dir \ {Max(Others(writer.tx))})
    /\ UNCHANGED <<tables, log, base, writer, loader, changes, taken, faults, logged, whole>>

TruncateLog ==
    /\ At("cleanup")
    /\ Others(writer.tx) = {}
    /\ Truncate(writer.tx)
    /\ writer' = Idle
    /\ UNCHANGED <<tables, dir, loader, changes, taken, faults, logged, whole>>
-----------------------------------------------------------------------------
(***************************************************************************)
(* The process dies, and starts again with recover.                         *)
(***************************************************************************)
Recovering(pc) == [pc |-> pc, unread |-> DOMAIN dir, tx |-> 0, todo |-> <<>>, done |-> {},
                   failed |-> FALSE, replayed |-> <<>>]

Crash ==
    /\ loader.pc # "down"
    /\ writer' = Idle
    /\ tables' = <<>>
    /\ loader' = Recovering("down")
    /\ UNCHANGED <<log, base, dir, changes, taken, faults, logged, whole>>

\* and takes the end of the file being written with it; what can be left of
\* a file at any point can be left of it at the last one before the sync
TearingCrash ==
    /\ loader = Up
    /\ At("sync")
    /\ faults < MaxFaults
    /\ faults' = faults + 1
    /\ \E n \in 0 .. (Len(File) - 1) : dir' = [dir EXCEPT ![writer.tx] = SubSeq(@, 1, n)]
    /\ writer' = Idle
    /\ tables' = <<>>
    /\ loader' = Recovering("down")
    /\ UNCHANGED <<log, base, changes, taken, logged, whole>>

\* a byte of a file goes bad
Damage ==
    /\ loader.pc = "down"
    /\ faults < MaxFaults
    /\ faults' = faults + 1
    /\ \E t \in DOMAIN dir : \E i \in {j \in DOMAIN dir[t] : j % Stride = 1} :
           dir' = [dir EXCEPT ![t][i] = (@ + 1) % 256]
    /\ UNCHANGED <<tables, log, base, writer, loader, changes, taken, logged, whole>>

Start ==
    /\ loader.pc = "down"
    /\ loader' = [loader EXCEPT !.pc = "open"]
    /\ UNCHANGED <<tables, log, base, dir, writer, changes, taken, faults, logged, whole>>
-----------------------------------------------------------------------------
(***************************************************************************)
(* loadLatestSnapshotFromDir and loadSnapshot.                              *)
(***************************************************************************)
OpenSnapshot ==
    /\ loader.pc = "open"
    /\ loader.unread # {}
    /\ \E t \in {Max(loader.unread)} : \E footer \in {readFooter(dir[t])} :
           loader' = IF footer = Error THEN [loader EXCEPT !.unread = @ \ {t}]
                     ELSE [loader EXCEPT !.pc = "load", !.unread = @ \ {t}, !.tx = t,
                                         !.todo = footer.tableMetadata, !.done = {}]
    /\ UNCHANGED <<tables, log, base, dir, writer, changes, taken, faults, logged, whole>>

\* the part that partMeta describes
ReadPart(bs, partMeta) ==
    LET partBytes == SubSeq(bs, partMeta.startOffset + 1, partMeta.endOffset)
    IN  CASE partMeta.encoding = ENCODING_PARQUET -> ReadParquet(partBytes)
          [] partMeta.encoding = ENCODING_ARROW   -> ReadArrow(partBytes)
          [] OTHER                                -> Error

NewPart(partMeta, part) ==
    [tx |-> partMeta.tx, level |-> partMeta.compactionLevel, arrow |-> part.arrow,
     data |-> part.data]

\* the parts of the first granules of meta, up to the first that cannot be read
PartMetas(meta) ==
    FlattenSeq([i \in DOMAIN meta.granuleMetadata |-> meta.granuleMetadata[i].partMetadata])

ReadParts(bs, metas) ==
    FoldLeft(LAMBDA read, m : IF ReadPart(bs, m) = Error \/ Len(read.parts) < read.at
                              THEN [read EXCEPT !.at = @ + 1]
                              ELSE [at |-> read.at + 1,
                                    parts |-> Append(read.parts, NewPart(m, ReadPart(bs, m)))],
             [at |-> 0, parts |-> <<>>], metas).parts

\* NewTableConfig with the options that the configuration spells out
LoadedConfig(config) == [config EXCEPT !.unknown = <<>>]

\* DB.Table gets the table that is there or a new one; its block is overwritten
LoadedTable(meta, parts) ==
    [config |-> LoadedConfig(meta.config), ulid |-> meta.activeBlock.ulid,
     size |-> meta.activeBlock.size, minTx |-> meta.activeBlock.minTx,
     prevTx |-> meta.activeBlock.prevTx,
     parts |-> (IF meta.name \in DOMAIN tables THEN tables[meta.name].parts ELSE <<>>) \o parts]

Loadable(meta, parts) ==
    meta.config.schema.kind # "none" /\ Len(parts) = Len(PartMetas(meta))

LoadTable ==
    /\ loader.pc = "load"
    /\ loader.todo # <<>>
    /\ \E meta \in {Head(loader.todo)} :
       \E parts \in {ReadParts(dir[loader.tx], PartMetas(Head(loader.todo)))} :
          /\ Loadable(meta, parts)
          /\ tables' = meta.name :> LoadedTable(meta, parts) @@ tables
          /\ loader' = [loader EXCEPT !.todo = Tail(@), !.done = @ \union {meta.name}]
    /\ UNCHANGED <<log, base, dir, writer, changes, taken, faults, logged, whole>>

(***************************************************************************)
(* A part cannot be decoded or, a fault, be read.  The tables that were     *)
(* loaded before this one go; this one stays, with the parts up to there.   *)
(***************************************************************************)
LoadFails ==
    /\ loader.pc = "load"
    /\ loader.todo # <<>>
    /\ \E meta \in {Head(loader.todo)} :
       \E parts \in {ReadParts(dir[loader.tx], PartMetas(Head(loader.todo)))} :
       \E n \in 0 .. Len(parts) :
          /\ IF Loadable(meta, parts) THEN n < Len(parts) /\ faults < MaxFaults
             ELSE n = Len(parts)
          /\ faults' = IF Loadable(meta, parts) THEN faults + 1 ELSE faults
          /\ tables' = (IF meta.config.schema.kind = "none" THEN <<>>
                        ELSE meta.name :> LoadedTable(meta, SubSeq(parts, 1, n)))
                       @@ Restrict(tables, DOMAIN tables \ loader.done)
    /\ loader' = [loader EXCEPT !.pc = "open", !.tx = 0, !.failed = TRUE]
    /\ UNCHANGED <<log, base, dir, writer, changes, taken, logged, whole>>

\* the whole snapshot is loaded: recover removes the others and queues a truncation of the log
Loaded ==
    /\ loader.pc = "load"
    /\ loader.todo = <<>>
    /\ dir' = Restrict(dir, {loader.tx})
    /\ loader' = [loader EXCEPT !.pc = "replay"]
    /\ UNCHANGED <<tables, log, base, writer, changes, taken, faults, logged, whole>>

NoneLoaded ==
    /\ loader.pc = "open"
    /\ loader.unread = {}
    /\ loader' = [loader EXCEPT !.pc = "replay"]
    /\ UNCHANGED <<tables, log, base, dir, writer, changes, taken, faults, logged, whole>>

(***************************************************************************)
(* FileWAL.Replay: the records from the snapshot's on, up to the first that *)
(* cannot be decoded; the log is cut off before that one.                   *)
(***************************************************************************)
Decoded(bss) == [i \in DOMAIN bss |-> DecodeRecord(bss[i])]

Bad(rs) == {i \in DOMAIN rs : rs[i] = Error} \union {Len(rs) + 1}

Replay ==
    LET before == Max({loader.tx - 1, base}) - base IN
    /\ loader.pc = "replay"
    /\ \E rs \in {Decoded(SubSeq(log, before + 1, Len(log)))} : \E n \in {Min(Bad(rs)) - 1} :
           /\ loader' = [loader EXCEPT !.pc = "run", !.replayed = SubSeq(rs, 1, n)]
           /\ log' = IF n = Len(rs) THEN log ELSE SubSeq(log, 1, before + n)
    /\ UNCHANGED <<tables, base, dir, writer, changes, taken, faults, logged, whole>>

\* RunAsync: the run loop starts, with the truncation that recover queued
RunAsync ==
    /\ loader.pc = "run"
    /\ Truncate(loader.tx)
    /\ loader' = [loader EXCEPT !.pc = "done"]
    /\ UNCHANGED <<tables, dir, writer, changes, taken, faults, logged, whole>>
-----------------------------------------------------------------------------
Init ==
    /\ tables = <<>> /\ log = <<>> /\ base = 0 /\ dir = <<>>
    /\ writer = Idle /\ loader = Up
    /\ changes = 0 /\ taken = 0 /\ faults = 0
    /\ logged = <<>> /\ whole = <<>>

Next ==
    \/ \E c \in Contents : Change(c)
    \/ \E order \in SetToSeqs(DOMAIN tables) : StartSnapshot(order)
    \/ WriteMagic \/ WriteTable \/ WritePart \/ TableWritten
    \/ WriteFooter \/ WriteVersion \/ WriteChecksum \/ WriteEnd \/ Sync \/ SnapshotFails
    \/ ReclaimDiskSpace \/ CleanupSnapshotDir \/ TruncateLog
    \/ Crash \/ TearingCrash \/ Damage \/ Start
    \/ OpenSnapshot \/ LoadTable \/ LoadFails \/ Loaded \/ NoneLoaded
    \/ Replay \/ RunAsync

Spec == Init /\ [][Next]_vars
-----------------------------------------------------------------------------
\* the files that are as a snapshot left them, and the others
Intact    == {t \in DOMAIN dir \intersect DOMAIN whole : dir[t] = whole[t].bytes}
Undamaged == \A t \in DOMAIN dir \intersect DOMAIN whole : IsPrefix(dir[t], whole[t].bytes)

Searched == \/ loader.pc = "load" /\ loader.todo = <<>>
            \/ loader.pc = "open" /\ loader.unread = {}

(***************************************************************************)
(* Recovery loads the latest snapshot that is intact, and what it loads is  *)
(* what was in memory when the snapshot was taken: a file that was torn, or *)
(* has a bad byte anywhere, is passed over, and one that a later version of *)
(* the program wrote is as good as any (loadLatestSnapshotFromDir,          *)
(* readFooter).  Without a snapshot it leaves nothing behind.  A file that  *)
(* turns out to be unreadable half way through is excepted.                 *)
(***************************************************************************)
LoadsLatest ==
    Searched /\ ~loader.failed =>
        /\ loader.tx = LatestOf(Intact)
        /\ tables = IF loader.tx = 0 THEN <<>> ELSE whole[loader.tx].tables

(***************************************************************************)
(* reclaimDiskSpace and recover delete snapshots and truncate the log; for  *)
(* whatever they cut off the log there is an intact snapshot in the         *)
(* directory that holds it, also when they run while or after a snapshot    *)
(* failed, or are cut short by a crash.                                     *)
(***************************************************************************)
TruncationCovered ==
    Undamaged /\ base > 0 => LatestOf(Intact) > base

(***************************************************************************)
(* Replay passes on every record that is in the log as it was logged,       *)
(* whatever its type (FileWAL.Log, FileWAL.Replay): none is taken for       *)
(* corrupt and cut off.                                                     *)
(***************************************************************************)
ReplaysRecords ==
    loader.pc \in {"run", "done"} =>
        loader.replayed = SubSeq(logged, Max({base + 1, loader.tx}), Len(logged))
=============================================================================
