# FrostDB in TLA+

A verification development for FrostDB, an embeddable columnar database in Go.
The modules model the code under `src/`; every definition that models code is
listed with its lines in `PROJECT.json` ("map"), every question that TLC answers
under "runs", and every result of the prover under "theorems".

## The system and its parts

| Part | Source | Modules |
| --- | --- | --- |
| Transactions, watermark, lock-free list, cleaner | `tx_list.go`, `db.go` (begin) | `Watermark`, `TxPool`, `TxPoolProofs` |
| Write-ahead log: queue, run loop, truncation, replay | `wal/wal.go` | `WAL`, `WALClients`, `WALProofs` |
| Durability: writers, rotation, persistence, snapshots, recovery | `db.go`, `table.go`, `snapshot.go`, `store.go` | `DB` |
| Snapshot files and log records as bytes | `snapshot.go`, `wal/wal.go`, `gen/proto/` | `Wire`, `SchemaCodec`, `SnapshotCodec`, `WALCodec`, `Disk` |
| Table readers, block life cycle, `DB.Close` | `table.go`, `store.go`, `db.go` | `Table`, `TableBlocksProofs`, `TableProofs` |
| ColumnStore: opening, dropping, closing databases | `db.go` | `ColumnStore`, `ColumnStoreProofs` |
| LSM index and compaction | `index/`, `table.go` (compaction functions, level files) | `Index`, `LSM` |
| Rows under compaction | `parts/`, `table.go`, `dynparquet/` | `Compaction` |
| Queries: planning, operators, synchronizers, converter | `query/`, `pqarrow/`, `table.go` (Iterator) | `Records`, `Converter`, `Operators`, `Plans`, `Query` |
| SQL parser, logic tests, command line tools, record builders | `sqlparse/`, `logictest/`, `cmd/`, `pqarrow/builder/` | none |

How they interact: a writer takes the table's active block, begins a transaction
(`TxPool`), puts its record into the queue of the log (`WAL`) and inserts the record
into the block (`DB`, `Table`), whose index (`LSM`) merges its parts in the background.
When a block is full it is rotated, uploaded to object storage, and a record of that is
logged; when the active block has grown enough the whole database is written to a
snapshot (`Disk`). Both truncate the log. After a crash, `recover` loads the latest
snapshot and replays the log twice, first to find the blocks that were persisted, then to
apply the writes. A query pins the blocks in memory, lists the files in object storage
and runs its operators concurrently on what both hand out (`Table`, `Query`).
`ColumnStore` owns the databases.

An `MC` module instantiates a specification for TLC; the `.cfg` files beside it give the
constants their values.

## The modules

**`Watermark`** is the abstract specification of what readers rely on: the watermark rises
by one completed transaction at a time. **`TxPool`** is the implementation: `DB.begin` and
its commit function, `Insert` on the sorted lock-free list, and the cleaner with `delete`.
One action is one atomic operation on shared memory. A node is its transaction id,
`next[n] = Nil` is the deletion mark and `original` the pointer saved for readers of a
marked node. `ImplementsWatermark` states the refinement.

**`WAL`** has the state of a `FileWAL` and its operations as actions: `Log`, `LogRecord`,
`Truncate`, `Reset` (which may fail after it has emptied the queue), `Close`, and the run loop split where it releases its lock (`Tick`,
`Store`, `TruncateLog`, `Adjust`, `Done`). The log store is a library and marked external:
a function on an interval of indexes. **`WALClients`** closes it with arbitrary callers,
failures of the log store and the close timeout.

**`DB`** extends `WAL` with the database around it, for one table: `Table`, `RotateBlock`,
`InsertRecord` (split at the points where others can run: taking the block, beginning,
logging, inserting), `writeBlock` (persist, drop, log, complete, snapshot, reclaim),
asynchronous snapshots, `Crash`, and `recover` (load the snapshot, first replay, second
replay with one goroutine per write, reset, the snapshot after recovery). What a block
holds is how often it holds each write, so losses and duplicates can be told apart.
`durable` (what has been in the log or in a snapshot) and `torn` (the writes that were
under way while a snapshot was taken) are history variables.

**`Disk`** has the bytes of snapshot files and of log records: a snapshot is written piece
by piece, may fail, be torn by a crash or damaged later, and is read back by `recover`, which
replays the log from the snapshot's transaction and leaves the truncation that it asked for to
the run loop. It justifies that in `DB` a snapshot is written in one step and a file is valid or not there.
**`Wire`**, **`SchemaCodec`**, **`SnapshotCodec`** and **`WALCodec`** are the generated
codecs, message by message, with unknown fields and groups. Numbers are below 2^31.

**`Table`** has the blocks of one table in memory and in object storage as a query sees
them, with the table lock, the wait groups of readers and writers, uploads that fail in
every way, and `DB.Close`. A section under the lock that does not wait is one action;
`dropPendingBlock` and `close`, which wait with the lock held, take and return it in
actions of their own.

**`ColumnStore`** has `DB` with the replay outside the mutex, `GetDB`, `DropDB` and `Close`,
with replays that fail or panic.

**`Index`** is the abstract specification of a block's index: a record is in it once, from
its insertion until an external writer takes it over. **`LSM`** is the implementation: the
linked list that sentinels divide into levels, `Add`, `InsertPart`, `EnsureCompaction`,
`Rotate`, `compact` and `merge` split at every operation on shared memory, and `Scan` under
the read lock. A compacted part has transaction 0, and for levels in `Disk` it holds a
reference to the level's file, which the release of the last one truncates. A swap that
fails and the load that follows are one step, since a failed swap only reads.
`ImplementsIndex` states the refinement. **`Compaction`** is what compaction does to the
rows of parts.

**`Records`** has records, row groups, filters, merging and groups; **`Converter`** the
conversion of row groups, with the short cuts of distinct queries; **`Operators`** the
operators as transformers of their state; **`Plans`** the optimisers and the physical plan.
**`Query`** runs a plan: the iterator, concurrent inputs, the two synchronizers,
cancellation and a failing callback. What a query should return, `Answer`, is defined from
the logical plan and all rows, without optimisers, operators or indexes.

## Runs

| Run | Bounds | Shows |
| --- | --- | --- |
| `txpool` | 3 transactions | the watermark never covers a running transaction and reaches every completed one; the list stays one sorted chain; no wake-up of the cleaner is missed; commit and the cleaner never hang each other; the pool implements `Watermark` |
| `wal` | 3 transactions, batches of 2, 1 truncation, 1 reset, 1 failure of the log store or of the reset | no request vanishes, the log store is never handed a gap, the log does not wait for what it has, `Close` returns |
| `db_log` | 1 write, 6 transactions, 3 blocks, 1 crash, no snapshots, object storage | logged writes stay recoverable although blocks complete out of order, and blocks not recorded as persisted come back |
| `db_snapshot` | 2 writes, 4 transactions, 2 blocks, 1 crash | with snapshots of both kinds: what is truncated is covered, recovery is exact for writes that no snapshot tears, and the log meets the snapshot |
| `db_truncate` | no writes, 6 transactions, 3 blocks, snapshots, no crash | the log meets the latest snapshot also where completed blocks cut it: two blocks complete in either order, and `maintainWAL` truncates up to the last one completed in order |
| `db_live` | 2 writes, 4 transactions, 2 blocks, no crash | every queued write leaves the queue |
| `db_rotation` (violation) | 1 write, 4 transactions, 2 blocks, 1 crash | the first finding below |
| `lsm` | 2 records, levels 0 to 2 with files for 1 and 2, a part loaded at level 2, 1 forced compaction or rotation, 1 failure, 1 scan | levels stay in order, sizes add up, a scan sees each record once, nothing is read after its release, files are truncated when empty and only then, compactions end, `LSM` implements `Index` |
| `table` | 2 writes, 1 reader, blocks full after 1 write, 3 blocks, 1 rotation by hand, 1 failure; writes are symmetric | no block changes while it is persisted; a query sees no write twice, and misses only what `ReadComplete` names; no wait with the table lock held lasts for ever |
| `query` | 14 queries on 7 tables, 3 inputs, a channel of 1, buffers of 3, pages of 2 rows, row groups of 3, 2 groups per aggregate, 1 failure | the rows of every query are those of `Answer`, with the exceptions below, compaction keeps and sorts rows, and every query returns |
| `disk` | 2 changes, 2 snapshots, damage at every 13th byte, 1 fault | the latest intact snapshot is loaded exactly, deletion and truncation never outrun it, log records survive encoding and replay |
| `store` | 1 name, 3 calls of `DB`, 2 of `DropDB` one after the other, `Close` | a name has one open database, known to the store, and every call of `DB` returns |

The largest are `db_snapshot` (2.2 million states), `db_truncate` (1.6 million), `table`
(1.4 million) and `db_log` (0.9 million); the smallest have thousands. All bounds are constants of the `MC` modules'
configurations.

The bounds are enough for the cases that matter to happen. Three transactions are the
least for one to be linked between two others while the cleaner is between them. Three
blocks are the least for two rotated ones to complete out of order while a third is active.
Two writes let one be on each side of a snapshot. One crash is the least that makes recovery
run. Two records let one be prepended while the other is merged; three levels let a
compaction cascade. Three inputs let one of them merge while one waits and one finishes. In
`db_snapshot` two blocks and four transactions leave `maintainWAL` nothing to cut, so
`db_truncate` checks `SnapshotMeetsLog` again with three blocks and six transactions; writes are
left out there, which `SnapshotMeetsLog` does not mention, and each block's own record and its
persisted record fill the log. Deadlock is not checked: transactions, calls and changes are
bounded, so every model stops, and a closed log is meant to. `Progress`, `NoDeadlock`,
`NeverStuck` and the liveness properties say where it may not.

`AnswersQuery` bounds the result from both sides where the code has two readings. A
comparison with a column that a row does not have goes by the record the row is in: if the record
lacks the column too, `!=` and whatever the empty string satisfies hold of it, otherwise only
`== null` does. How records were put together is up to compaction, so what is returned lies between
the answers of the two readings; of what is aggregated from such rows nothing is said. A hash
aggregation by a dynamic column may return a group in several pieces when its records have
different label columns (`GroupsApart`); then the pieces must add up to the group, unless the
aggregate is an average. An error is returned only when the query was cancelled, its callback
failed, or an aggregate was split (`AggregateSplit`): a record that follows the split is
refused. Row groups whose pages lie on both sides of a distinct's comparison are excepted
(`Misjudged`, see `MCQueryDistinct` below), and no query has two averages in one aggregation, on
which the planner panics (`OneAverage`).

### Finding

- `db_rotation`: recovery compares transactions with that of the *persisted record*, so the
  writes between a rotation and that record, which belong to the next block, are skipped.

### Violations without a run

Each is a property that the code does not have, with a configuration of its own, which TLC answers
with a counterexample. They are kept for the day the code changes. The properties of the passing
runs state what holds around them.

| Configuration | Property | What the code does |
| --- | --- | --- |
| `MCWALClose` | `CloseDrains` | the close timeout is measured from the last batch instead of from `Close`, so a log that was idle before may exit with a ready request queued |
| `MCDBCover` | `SnapshotCovers` | an unfinished write below a snapshot's transaction is in no snapshot and is truncated from the log |
| `MCDBDuplicate` | `NoDuplicates` | a write above a snapshot's transaction may be in the snapshot and is replayed as well |
| `MCDBStuck` | `LogNeverStuck` | a crash after a snapshot file is complete and before its record is logged leaves `nextTx` one behind, and nothing is logged again |
| `MCLSMIsolation` | `ScanIsolated` | compacted parts have transaction 0, so a scan may see records above its watermark |
| `MCTableClose` | `ClosePersists` | `Close` waits for the block it writes and for no other before it removes the log |
| `MCTableReads` | `ReadCommitted` | `Persist` empties a block that is still pending, and its file is then ignored by a query that found the block pending |
| `MCQueryDistinct` | `DistinctCombinations` | `allOrNoneGreaterThan` confuses the minimum and the maximum of pages, and a distinct query over a comparison loses a combination |
| `MCQueryCancel` | `WaitersExact` | an input cancelled while it waits is still counted, so the input that merges has one message too many to send, and hangs with the mutex held |
| `MCColumnStoreDrops` | `OneOwner` | two overlapping calls of `DropDB` may remove the files of a database that was opened again in between |

`PartsReadable` needs that no in-memory level comes after a level on disk. Otherwise a level
with a single part is passed on without a copy, and the release of the old part truncates the
file under the new one; TLC shows it for `Disk = {1}` with `MaxLevel = 2`.

## Fairness

- `TxPool`: every goroutine that has started its commit runs on, and so does the cleaner.
  Nothing makes a running transaction commit.
- `WALClients`: the run loop is a goroutine with a ticker, and Go's `select` chooses a
  ready branch at random, so `Tick` and `Done` are each weakly fair. Time passes.
- `DB`: goroutines that are past `begin` log their records, of writes, blocks and
  snapshots, and insert the writes; the run loop and recovery run on. Uploads and clients
  may stop for ever.
- `LSM`: the goroutine of a compaction runs on, and a scan that holds the read lock
  finishes. A writer may stop anywhere. Go's `RWMutex` lets no new reader in front of a
  waiting writer, which is the guard of `ScanStart`.
- `ColumnStore`: a call of `DB` that has begun runs on, and so does `Close`. `OpenReturns`
  relies on there being finitely many calls: a caller may be overtaken by another replay of
  its name each time it is woken.

`Table`, `Query` and `Disk` are checked for safety only; that nothing is stuck is an
invariant there.

## Proofs

TLAPS proves the following for every value of the constants that the named assumptions
allow: any number of transactions, writes, blocks, readers, callers, crashes and failures.

| Module | Theorem | States |
| --- | --- | --- |
| `TxPoolProofs` | `TypeCorrect`, `WatermarkSafety`, `ChainSafety`, `NothingLost`, `WakeupKept` | `TypeOK`, `WatermarkOnlyCompleted`, `SortedChain`, `NoTransactionLost`, `WakeupPending` |
| `TxPoolProofs` | `Refinement` | `TxPool` implements `Watermark` |
| `WALProofs` | `RequestsKept`, `StoreContinued` | `NoRequestVanishes`, `StoreNeverRefused` |
| `TableProofs` | `TableTypes`, `BlocksSealed`, `ReadsOnce`, `ReadsComplete` | `TypeOK`, `Sealed`, `ReadOnce`, `ReadComplete` |
| `ColumnStoreProofs` | `StoreOwnership` | `OneOwner`, if calls of `DropDB` do not overlap |

Assumed of the constants: bounds are natural numbers, switches are Booleans, the limit of a
batch and the size of a block are not zero, and the marks of `ColumnStore` differ from its
callers. Assumed of nothing else; that the natural numbers are well ordered is taken from the
library (`LeastNat`).

Each proof rests on an inductive invariant `IInv`, with one lemma for each part of it and, in
the lemma, one step for each action. None of the properties is inductive alone, because each
depends on where the goroutines are.

**Transactions.** `WatermarkInv`: only the commit of transaction `highWatermark + 1` or the
cleaner standing on that node can be about to store the watermark, which is why a load, a
compare and a store need not be one atomic step. `PointerInv`: pointers go forward,
unpublished nodes are blank, only nodes below the watermark are marked. `WalkInv`: the local
variables of each walk. `ChainInv`: the nodes that have not been unlinked form one chain.
`WakeupPending` needs, beside these, that the cleaner walks on nodes
that are still linked (`WalkLinked`).

**Write-ahead log.** `RequestInv`: every transaction from the start of the log to `nextTx`
was submitted or covered by a truncation, and a pending request is ahead of `nextTx` or
covered as well. `StoreInv`: while the log store works and is not reset, it ends where
`nextTx` says, or where the batch begins that is to be stored. The truncation that the run
loop took before it released its lock, and the adjustment after it, are why `taken` is in both.

**Table.** In two modules, the parts about blocks first. `LockInv`, `SealInv`, `HomeInv` and `TimeInv` tie writers, the wait groups and
`writeBlock`'s stages together; `TxInv` says which writes a reader's transaction covers.
`PlaceInv` follows a write from memory to its file: it never lacks a place while `writeBlock`
moves its block. `ReaderInv` and `GoneInv` say that what a reader has been passed is not ahead
of it again, because the files that it lists are of blocks it has not pinned. `CompleteInv`
says that what it should see is behind it or ahead of it.

**ColumnStore.** `StateInv`, `ReplayInv`, `OwnInv`, `DropInv` and `CloseInv` tie the maps of the
store to the calls that are under way, with any of them failing or panicking.

Model-checked only, and why:

- liveness (`WatermarkCatchesUp`, `CommitFinishes`, `Progress`, `CloseReturns`, `LogDrains`,
  `CompactionEnds`, `OpenReturns`) and `NoDeadlock`: the prover has neither fairness nor
  `ENABLED`;
- `DB`: `Recoverable`, `RecoveredOnce`, `BlocksRecovered` and `SnapshotMeetsLog` have no proof;
- `LSM`: the levels are read off a walk along the linked list, and the sizes are sums; both
  need induction over data. The refinement of `Index` needs them as well;
- `Query`, `Compaction`, `Disk` and the codecs: recursive operators over plans, rows and bytes.

## Not modelled

- `DB`: several tables in one recovery, and the repair of a corrupt log in `Replay`. Nothing is
  stated about a `Reset` while the run loop holds a batch: the batch is stored afterwards, with its
  old indexes. Only the exported `LoadSnapshot` resets a log that is running.
- `LSM` and `Compaction`: removal of duplicate rows for schemas with a unique primary index.
- `Table`: queries on memory only, read-only tables, and `WaitForPendingCompactions` and the closers
  in `Close`: they run without the table lock and change none of the modelled state. The clock is assumed not to go back.
- `Query`: dynamic aggregations, durations, bloom filters, the typing of literals, `SchemaScan`,
  two averages in one aggregation, the row-based conversion of merged row groups, memory accounting.
- `Disk`: a cleanup that fails; a part is one granule.
- `ColumnStore`: metrics of read-only tables.
- The SQL parser and the logic-test runner (test tooling), the command line tools (they read
  files and print), record builders (bitmaps and buffers), metrics, tracing and logging.

## Observations

Met while modelling, and not the subject of a property:

- `snapshot.go:669`: when a table of a snapshot cannot be loaded, only the tables before it are
  cleaned up. `db.go:680`: `recover` only logs that a snapshot could not be loaded, although
  the log has been truncated by it.
- `table.go:508`: the snapshot on rotation reclaims disk space even when writing it failed.
- `db.go:736`: the first replay returns with `db.mtx` locked when an index cannot be rebuilt.
- `table.go:1156`: closers accumulate, one set per block, and run when the table is closed.
- `db.go:555` registers metrics "last to avoid duplicate registration" when a replay fails, but
  `wal.Open` has registered its own before, so opening the name again in the same store panics.
  A failed `recover` leaves its log store open.
- `query/expr/binaryscalarexpr.go:177`: the minimum of a column index is reset by a page of nulls.
- Plans: two averages in one aggregation make `AverageAggregationPushDown` fail; filters and
  distincts are pushed through aggregations; a query of filters alone reads only their columns.
- `HashAggregate`: a split aggregate expects no concrete aggregations and refuses the next record.
- `parts/part.go:94`: the set of non-overlapping parts is not always the maximum; the merged
  result is right nevertheless.
- `table.go:80`: "A <= 0 value indicates no limit" for the size of row groups, but a negative
  value makes `rowWriter` panic.
- Without object storage, rotation drops the block by design.
