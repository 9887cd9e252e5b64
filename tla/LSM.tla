-------------------------------- MODULE LSM ---------------------------------
(***************************************************************************)
(* The index of a table block (index/lsm.go, index/lsm_list.go): one linked *)
(* list that sentinel nodes divide into levels.  Writers prepend to level   *)
(* 0 without a lock, one compaction at a time replaces a level's nodes by a *)
(* part of the next level, and readers walk the list meanwhile.  Compaction *)
(* functions and the files of levels on disk are those of table.go.         *)
(*                                                                         *)
(* A record is its transaction.  A node is a position in the sequence       *)
(* nodes; a sentinel has no records.  One action is one atomic operation on *)
(* shared memory, or several that only touch what no one else can see.      *)
(***************************************************************************)
EXTENDS Integers, Sequences, FiniteSets, FiniteSetsExt, Functions

CONSTANTS
    Records,           \* bound: the transactions that insert a record, 1..n
    Readers,           \* concurrent scans
    MaxLevel,          \* LSM.MaxLevel
    MaxSize,           \* LevelConfig.MaxSize of the levels below MaxLevel
    Disk,              \* levels whose parts are in a file (CompactionTypeParquetDisk)
    LoadLevels,        \* bound: levels at which a snapshot may have a part
    MaxForced,         \* bound: calls of EnsureCompaction and Rotate
    MaxFailures        \* bound: failures of a compaction

ASSUME LSMAssumption ==
    /\ MaxLevel \in Nat \ {0}
    /\ MaxSize \in [0..(MaxLevel - 1) -> Nat]
    /\ Disk \subseteq 1..MaxLevel
    /\ LoadLevels \subseteq 0..MaxLevel
    /\ Records = 1..Cardinality(Records)

VARIABLES
    nodes,             \* every node ever made
    sizes,             \* LSM.sizes
    compacting,        \* LSM.compacting
    apc, seen,         \* Add: where each writer is, the next pointer it loaded
    mode,              \* who compacts: compact(false), compact(true) or Rotate
    cpc, clevel,       \* where the compaction is
    clist, cnext,      \* merge: nodeList and next
    cnew, csize,       \* merge: the new sentinel and size
    pred,              \* merge: what findNode returned
    files,             \* fileCompaction of the levels on disk
    rpc, rtx, rnode,   \* scans: where they are, their transaction, their node
    found,             \* scans: how often they have passed on each record
    exported,          \* what the external writer has taken over
    forced, failures

adders     == <<apc, seen>>
compaction == <<mode, cpc, clevel, clist, cnext, cnew, csize, pred>>
scans      == <<rpc, rtx, rnode, found>>
counts     == <<forced, failures>>
vars       == <<nodes, sizes, compacting, adders, compaction, files, scans, exported, counts>>

Levels == 0..MaxLevel
Nil    == 0
L0     == 1            \* the sentinel of level 0

Memory == 0            \* where the bytes of a part are: here, in the file of a level,
Gone   == -1           \* or in a file that was truncated

Sentinel(level, next) ==
    [records |-> {}, tx |-> 0, size |-> 0, level |-> level, sentinel |-> TRUE,
     where |-> Memory, counted |-> FALSE, released |-> FALSE, next |-> next]

\* counted: the part holds a reference to its level's file, which its release gives back
Part(records, tx, size, level, where, counted, next) ==
    [records |-> records, tx |-> tx, size |-> size, level |-> level, sentinel |-> FALSE,
     where |-> where, counted |-> counted, released |-> FALSE, next |-> next]

\* Node.Iterate from the sentinel of level 0: the nodes in the list
Listed ==
    LET walk[n \in Nat] == IF n = Nil THEN {} ELSE {n} \union walk[nodes[n].next]
    IN  walk[L0]

findLevel(level) ==
    LET find[n \in Nat] == IF nodes[n].sentinel /\ nodes[n].level = level
                           THEN n ELSE find[nodes[n].next]
    IN  find[L0]

findNode(node) ==
    LET find[n \in Nat] == IF nodes[n].next = node THEN n ELSE find[nodes[n].next]
    IN  find[L0]

\* NewLSM: the chain of sentinels
Init ==
    /\ nodes = [i \in 1..(MaxLevel + 1) |->
                  Sentinel(i - 1, IF i = MaxLevel + 1 THEN Nil ELSE i + 1)]
    /\ sizes = [l \in Levels |-> 0]
    /\ compacting = FALSE
    /\ apc = [r \in Records |-> "idle"]
    /\ seen = [r \in Records |-> Nil]
    /\ mode = "none" /\ cpc = "idle" /\ clevel = 0
    /\ clist = <<>> /\ cnext = Nil /\ cnew = Nil /\ csize = 0 /\ pred = Nil
    /\ files = [l \in Disk |-> [ref |-> 0, skewed |-> FALSE]]
    /\ rpc = [s \in Readers |-> "idle"]
    /\ rtx = [s \in Readers |-> 0]
    /\ rnode = [s \in Readers |-> Nil]
    /\ found = [s \in Readers |-> [r \in Records |-> 0]]
    /\ exported = {}
    /\ forced = 0 /\ failures = 0

\* InsertPart, with which a snapshot is loaded before the index is used
InsertPart(r, level) ==
    LET s == findLevel(level) IN
    /\ forced = 0 /\ cpc = "idle"
    /\ \A q \in Records : apc[q] = (IF q < r THEN "loaded" ELSE "idle")
    /\ \A c \in Readers : rpc[c] = "idle"
    /\ nodes' = Append([nodes EXCEPT ![s].next = Len(nodes) + 1],
                       Part({r}, IF level = 0 THEN r ELSE 0, 1, level, Memory, FALSE,
                            nodes[s].next))
    /\ sizes' = [sizes EXCEPT ![level] = @ + 1]
    /\ apc' = [apc EXCEPT ![r] = "loaded"]
    /\ UNCHANGED <<compacting, seen, compaction, files, scans, exported, counts>>
-----------------------------------------------------------------------------
(***************************************************************************)
(* LSM.Add: prepend in a loop of compare-and-swaps, add to the size of      *)
(* level 0, and start a compaction if the level is full and there is none.  *)
(***************************************************************************)
PrependLoad(r) ==
    /\ apc[r] = "idle"
    /\ apc' = [apc EXCEPT ![r] = "swap"]
    /\ seen' = [seen EXCEPT ![r] = nodes[L0].next]
    /\ UNCHANGED <<nodes, sizes, compacting, compaction, files, scans, exported, counts>>

\* a swap that fails only reads, and the loop loads again
PrependSwap(r) ==
    /\ apc[r] = "swap"
    /\ IF nodes[L0].next = seen[r]
       THEN /\ nodes' = Append([nodes EXCEPT ![L0].next = Len(nodes) + 1],
                               Part({r}, r, 1, 0, Memory, FALSE, seen[r]))
            /\ apc' = [apc EXCEPT ![r] = "size"]
            /\ seen' = [seen EXCEPT ![r] = Nil]
       ELSE /\ seen' = [seen EXCEPT ![r] = nodes[L0].next]
            /\ UNCHANGED <<nodes, apc>>
    /\ UNCHANGED <<sizes, compacting, compaction, files, scans, exported, counts>>

AddSize(r) ==
    /\ apc[r] = "size"
    /\ sizes' = [sizes EXCEPT ![0] = @ + 1]
    /\ apc' = [apc EXCEPT ![r] = IF sizes'[0] >= MaxSize[0] THEN "trigger" ELSE "done"]
    /\ UNCHANGED <<nodes, compacting, seen, compaction, files, scans, exported, counts>>

\* take the compacting flag and begin at level 0
Begin(m) ==
    /\ ~compacting
    /\ compacting' = TRUE
    /\ mode' = m
    /\ cpc' = "level"
    /\ clevel' = 0

AddTrigger(r) ==
    /\ apc[r] = "trigger"
    /\ IF compacting THEN UNCHANGED <<compacting, mode, cpc, clevel>> ELSE Begin("compact")
    /\ apc' = [apc EXCEPT ![r] = "done"]
    /\ UNCHANGED <<nodes, sizes, seen, clist, cnext, cnew, csize, pred, files, scans,
                   exported, counts>>

EnsureCompaction ==
    /\ forced < MaxForced
    /\ forced' = forced + 1
    /\ Begin("ensure")
    /\ UNCHANGED <<nodes, sizes, adders, clist, cnext, cnew, csize, pred, files, scans,
                   exported, failures>>

\* Rotate(MaxLevel, externalParquetCompaction); a table calls it on a block that has
\* no more writers, here it may come at any time
Rotate ==
    /\ forced < MaxForced
    /\ forced' = forced + 1
    /\ Begin("rotate")
    /\ UNCHANGED <<nodes, sizes, adders, clist, cnext, cnew, csize, pred, files, scans,
                   exported, failures>>
-----------------------------------------------------------------------------
(***************************************************************************)
(* compact and Rotate: merge level after level.                             *)
(***************************************************************************)
\* mutant: the flag stays taken
FinishKeepsFlag ==
    /\ mode' = "none" /\ cpc' = "idle" /\ clevel' = 0
    /\ UNCHANGED compacting

Finish ==
    /\ compacting' = FALSE
    /\ mode' = "none"
    /\ cpc' = "idle"
    /\ clevel' = 0

\* on to the next level; Rotate ends with the last one, compact before it
NextLevel ==
    IF clevel < (IF mode = "rotate" THEN MaxLevel ELSE MaxLevel - 1)
    THEN clevel' = clevel + 1 /\ cpc' = "level" /\ UNCHANGED <<compacting, mode>>
    ELSE Finish

\* the parts of a level, up to the next sentinel
nodeList(level) ==
    LET walk[n \in Nat] == IF n = Nil THEN <<>>
                           ELSE IF nodes[n].sentinel THEN <<>>
                           ELSE <<n>> \o walk[nodes[n].next]
    IN  walk[nodes[findLevel(level)].next]

\* mutant: the sentinel of the next level stays in the list
afterListKeepsSentinel(level) ==
    LET walk[n \in Nat] == CASE n = Nil -> Nil
                             [] n # Nil /\ ~nodes[n].sentinel -> walk[nodes[n].next]
                             [] OTHER -> n
    IN  walk[nodes[findLevel(level)].next]

\* what comes after them: the sentinel of the next level is left out, merge replaces it
afterList(level) ==
    LET walk[n \in Nat] == CASE n = Nil -> Nil
                             [] n # Nil /\ ~nodes[n].sentinel -> walk[nodes[n].next]
                             [] OTHER -> IF nodes[n].level = level + 1 THEN nodes[n].next ELSE n
    IN  walk[nodes[findLevel(level)].next]

SkipLevel ==
    /\ cpc = "level"
    /\ \/ mode = "compact" /\ sizes[clevel] < MaxSize[clevel]
       \/ nodeList(clevel) = <<>>
    /\ NextLevel
    /\ UNCHANGED <<nodes, sizes, adders, clist, cnext, cnew, csize, pred, files, scans,
                   exported, counts>>

Collect ==
    /\ cpc = "level"
    /\ mode = "compact" => sizes[clevel] >= MaxSize[clevel]
    /\ clist' = nodeList(clevel)
    /\ clist' # <<>>
    /\ cnext' = afterList(clevel)
    /\ cpc' = "write"
    /\ UNCHANGED <<nodes, sizes, compacting, adders, mode, clevel, cnew, csize, pred,
                   files, scans, exported, counts>>

Merged    == UNION {nodes[n].records : n \in Range(clist)}
MergeSize == MapThenSumSet(LAMBDA n : nodes[n].size, Range(clist))

\* the external writer takes the parts; the new sentinel is for level MaxLevel + 1
WriteExternal ==
    /\ cpc = "write"
    /\ clevel = MaxLevel
    /\ nodes' = Append(nodes, Sentinel(clevel + 1, cnext))
    /\ cnew' = Len(nodes')
    /\ csize' = MergeSize
    /\ cpc' = "find"
    /\ UNCHANGED <<sizes, compacting, adders, mode, clevel, clist, cnext, pred, files,
                   scans, exported, counts>>

\* the new part: written to the file of the next level; or kept where it is, if there
\* is nothing to merge and its bytes are already parquet; or written to memory
Compacted(size) ==
    LET level == clevel + 1
        only  == nodes[clist[1]]
    IN  CASE level \in Disk -> Part(Merged, 0, size, level, level, TRUE, cnext)
          [] level \notin Disk /\ Len(clist) = 1 ->
                 Part(Merged, 0, size, level, only.where, FALSE, cnext)
          [] OTHER -> Part(Merged, 0, size, level, Memory, FALSE, cnext)

\* Compact makes one part, whose transaction is 0 and whose size may be smaller
WriteCompacted ==
    LET level == clevel + 1 IN
    /\ cpc = "write"
    /\ clevel < MaxLevel
    /\ level \in Disk => ~files[level].skewed
    /\ \E size \in {1, MergeSize} :
        /\ nodes' = nodes \o <<Sentinel(level, Len(nodes) + 2), Compacted(size)>>
        /\ sizes' = [sizes EXCEPT ![level] = @ + size]
    /\ files' = [l \in Disk |-> IF l = level THEN [files[l] EXCEPT !.ref = @ + 1] ELSE files[l]]
    /\ cnew' = Len(nodes) + 1
    /\ csize' = MergeSize
    /\ cpc' = "find"
    /\ UNCHANGED <<compacting, adders, mode, clevel, clist, cnext, pred, scans, exported,
                   counts>>

\* What a failure leaves in the file of the level that is written.  compactParts may
\* have written bytes that f.offset does not count; then the next part is not where it
\* is looked for, and cannot be opened.  A part that cannot be opened keeps its
\* reference.
FailedFile(f) ==
    LET leaked == [f EXCEPT !.ref = @ + 1]
    IN  IF f.skewed THEN {leaked} ELSE {f, leaked, [f EXCEPT !.skewed = TRUE]}

\* an error ends compact and Rotate
WriteFails ==
    LET level == clevel + 1 IN
    /\ cpc = "write"
    /\ IF level \in Disk /\ files[level].skewed
       THEN UNCHANGED failures
       ELSE failures < MaxFailures /\ failures' = failures + 1
    /\ IF level \in Disk
       THEN \E f \in FailedFile(files[level]) : files' = [files EXCEPT ![level] = f]
       ELSE UNCHANGED files
    /\ Finish
    /\ clist' = <<>> /\ cnext' = Nil
    /\ UNCHANGED <<nodes, sizes, adders, cnew, csize, pred, scans, exported, forced>>

Find ==
    /\ cpc = "find"
    /\ pred' = findNode(clist[1])
    /\ cpc' = "swap"
    /\ UNCHANGED <<nodes, sizes, compacting, adders, mode, clevel, clist, cnext, cnew,
                   csize, files, scans, exported, counts>>

\* mutant: a store in place of the compare-and-swap
StoresBlindly == TRUE

\* what the compare-and-swap compares
StillFirst == nodes[pred].next = clist[1]

\* mutant: the loop does not look for the predecessor again
SwapOnlyAgain == UNCHANGED <<nodes, exported, pred, cpc>>

\* a part was prepended in between
FindAgain ==
    /\ pred' = findNode(clist[1])
    /\ UNCHANGED <<nodes, exported, cpc>>

\* replace the merged nodes by the new ones
Replace ==
    /\ nodes' = [nodes EXCEPT ![pred].next = cnew]
    /\ exported' = IF clevel = MaxLevel THEN exported \union Merged ELSE exported
    /\ pred' = Nil
    /\ cpc' = "size"

Swap ==
    /\ cpc = "swap"
    /\ IF StillFirst THEN Replace ELSE FindAgain
    /\ UNCHANGED <<sizes, compacting, adders, mode, clevel, clist, cnext, cnew, csize,
                   files, scans, counts>>

\* mutant: the level is taken to be empty
SizeReset(level) == 0

SizeAfterMerge(level) == sizes[level] - csize

SubtractSize ==
    /\ cpc = "size"
    /\ sizes' = [sizes EXCEPT ![clevel] = SizeAfterMerge(clevel)]
    /\ cpc' = "lock"
    /\ UNCHANGED <<nodes, compacting, adders, mode, clevel, clist, cnext, cnew, csize,
                   pred, files, scans, exported, counts>>

\* mutant: one reference for all parts
givenOnce == Cardinality({clevel} \intersect Disk)

\* the references that the merged parts give back to the file of their level
given == Cardinality({n \in Range(clist) : nodes[n].counted})

truncates == given > 0 /\ files[clevel].ref = given

\* mutant: the lock is not taken
NoLock == TRUE

\* LSM.Lock, which every scan holds for reading
Lock == \A s \in Readers : rpc[s] # "scan"

\* Release the old parts under the write lock.  The last reference to a level's file
\* truncates it.
Release ==
    /\ cpc = "lock"
    /\ Lock
    /\ files' = IF given = 0 THEN files
                ELSE [files EXCEPT ![clevel] = IF truncates THEN [ref |-> 0, skewed |-> FALSE]
                                               ELSE [@ EXCEPT !.ref = @ - given]]
    /\ LET kept == IF truncates THEN {Gone, Memory} \union (Disk \ {clevel})
                   ELSE {Gone, Memory} \union Disk
       IN  nodes' = [n \in DOMAIN nodes |->
                       [nodes[n] EXCEPT !.released = @ \/ n \in Range(clist),
                                        !.where = IF @ \in kept THEN @ ELSE Gone]]
    /\ clist' = <<>> /\ cnext' = Nil /\ cnew' = Nil /\ csize' = 0
    /\ NextLevel
    /\ UNCHANGED <<sizes, adders, pred, scans, exported, counts>>
-----------------------------------------------------------------------------
(***************************************************************************)
(* LSM.Scan under the read lock, which a waiting writer keeps new readers   *)
(* out of.  The transaction is a watermark: all up to it are complete.      *)
(***************************************************************************)
Watermarks == {t \in {0} \union Records : \A r \in Records : r <= t => apc[r] \in {"done", "loaded"}}

ScanStart(s) ==
    /\ rpc[s] = "idle"
    /\ cpc # "lock"
    /\ \E t \in Watermarks : rtx' = [rtx EXCEPT ![s] = t]
    /\ rpc' = [rpc EXCEPT ![s] = "scan"]
    /\ rnode' = [rnode EXCEPT ![s] = L0]
    /\ UNCHANGED <<nodes, sizes, compacting, adders, compaction, files, found, exported,
                   counts>>

\* mutant: the scan's own transaction is left out
StrictlyOlder(n, s) == n.tx < rtx[s]

Visible(n, s) == n.tx <= rtx[s]

\* pass a part on unless it is newer than the scan, then load the next pointer
ScanNode(s) ==
    LET n == nodes[rnode[s]] IN
    /\ rpc[s] = "scan"
    /\ found' = [found EXCEPT ![s] =
                   [r \in Records |-> IF Visible(n, s) /\ r \in n.records THEN @[r] + 1
                                                                      ELSE @[r]]]
    /\ rnode' = [rnode EXCEPT ![s] = n.next]
    /\ rpc' = [rpc EXCEPT ![s] = IF n.next = Nil THEN "done" ELSE "scan"]
    /\ UNCHANGED <<nodes, sizes, compacting, adders, compaction, files, rtx, exported,
                   counts>>
-----------------------------------------------------------------------------
AddStep(r) == PrependLoad(r) \/ PrependSwap(r) \/ AddSize(r) \/ AddTrigger(r)

CompactionStep ==
    \/ SkipLevel \/ Collect \/ WriteExternal \/ WriteCompacted \/ WriteFails
    \/ Find \/ Swap \/ SubtractSize \/ Release

Next ==
    \/ \E r \in Records, level \in LoadLevels : InsertPart(r, level)
    \/ \E r \in Records : AddStep(r)
    \/ EnsureCompaction \/ Rotate
    \/ CompactionStep
    \/ \E s \in Readers : ScanStart(s) \/ ScanNode(s)

Spec == Init /\ [][Next]_vars

\* The compaction's goroutine runs on, and so does a reader that holds the lock; a writer
\* may stop anywhere.
Fairness ==
    /\ WF_vars(CompactionStep)
    /\ \A s \in Readers : WF_vars(ScanNode(s))

FairSpec == Spec /\ Fairness
-----------------------------------------------------------------------------
NodeType ==
    [records : SUBSET Records, tx : {0} \union Records, size : 0..Cardinality(Records),
     level : 0..(MaxLevel + 1), sentinel : BOOLEAN, where : {Gone, Memory} \union Disk,
     counted : BOOLEAN, released : BOOLEAN, next : Nat]

\* The types of the state.
TypeOK ==
    /\ nodes \in Seq(NodeType)
    /\ \A n \in DOMAIN nodes : nodes[n].next \in DOMAIN nodes \union {Nil}
    /\ sizes \in [Levels -> Int]
    /\ compacting \in BOOLEAN
    /\ apc \in [Records -> {"idle", "loaded", "swap", "size", "trigger", "done"}]
    /\ mode \in {"none", "compact", "ensure", "rotate"}
    /\ cpc \in {"idle", "level", "write", "find", "swap", "size", "lock"}
    /\ clevel \in Levels
    /\ Range(clist) \subseteq DOMAIN nodes
    /\ files \in [Disk -> [ref : Nat, skewed : BOOLEAN]]
    /\ rpc \in [Readers -> {"idle", "scan", "done"}]
    /\ \A s \in Readers : rnode[s] \in DOMAIN nodes \union {Nil}
    /\ exported \subseteq Records
    /\ compacting <=> cpc # "idle"

\* The list is always the levels in order, each behind its own sentinel, whatever merge
\* and Prepend do to it at the same time: findLevel and findNode never come back empty.
LevelsInOrder ==
    LET walk[n \in Nat] == IF n = Nil THEN <<>> ELSE <<n>> \o walk[nodes[n].next]
        list      == walk[L0]
        sentinels == SelectSeq(list, LAMBDA n : nodes[n].sentinel)
        behind(i) == CHOOSE j \in 1..i : /\ nodes[list[j]].sentinel
                                        /\ \A k \in (j + 1)..i : ~nodes[list[k]].sentinel
    IN  /\ Len(sentinels) \in {MaxLevel + 1, MaxLevel + 2}
        /\ \A i \in DOMAIN sentinels : nodes[sentinels[i]].level = i - 1
        /\ \A i \in DOMAIN list : nodes[list[i]].level = nodes[list[behind(i)]].level
        /\ cpc \in {"find", "swap"} => \E m \in Listed : nodes[m].next = clist[1]

\* A level's size is that of the parts in it, apart from what Add and merge are about to
\* account for: sizes[0] may be behind the list, sizes[level + 1] ahead of it.
SizesAccount ==
    \A l \in Levels :
        sizes[l] = MapThenSumSet(LAMBDA n : nodes[n].size, {n \in Listed : nodes[n].level = l})
                   - (IF l = 0 THEN Cardinality({r \in Records : apc[r] = "size"}) ELSE 0)
                   + (IF cpc = "size" /\ l = clevel THEN csize ELSE 0)
                   + (IF cpc \in {"find", "swap"} /\ l = clevel + 1
                      THEN nodes[cnew + 1].size ELSE 0)

\* A finished scan has passed on every record of its transaction or before exactly once,
\* unless the record has left the index; and no record is ever passed on twice, whether
\* it is met before or after a merge.
ScanOnce ==
    \A s \in Readers, r \in Records :
        /\ found[s][r] <= 1
        /\ rpc[s] = "done" /\ r <= rtx[s] /\ r \notin exported => found[s][r] = 1

\* What a scan stands on has not been released, and no part in the list, or in the hands
\* of a merge, has its bytes in a file that was truncated.
PartsReadable ==
    /\ \A s \in Readers : rpc[s] = "scan" =>
           ~nodes[rnode[s]].released /\ nodes[rnode[s]].where # Gone
    /\ \A n \in Listed \union Range(clist) : nodes[n].where # Gone /\ ~nodes[n].released

\* A level's file has as many references as there are parts in it, as long as no
\* compaction has failed; so release truncates it when it is no longer needed.
ReferencesCounted ==
    failures = 0 => \A l \in Disk :
        files[l].ref = Cardinality({n \in DOMAIN nodes : nodes[n].counted /\ ~nodes[n].released
                                                        /\ nodes[n].level = l})

\* The watermark of a scan bounds what it sees.
ScanIsolated ==
    \A s \in Readers, r \in Records : found[s][r] > 0 => r <= rtx[s]

\* Every compaction ends, and the flag is free for the next one.
CompactionEnds == compacting ~> ~compacting

\* Merging never changes what is stored, inserting adds one record, and only the
\* external writer takes records out.
stored ==
    LET list == Listed IN [r \in Records |-> Cardinality({n \in list : r \in nodes[n].records})]

I == INSTANCE Index

ImplementsIndex == I!Spec
=============================================================================
