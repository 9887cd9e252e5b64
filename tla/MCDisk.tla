------------------------------- MODULE MCDisk -------------------------------
(***************************************************************************)
(* Small instances of Disk: two tables, one with a schema of each version,  *)
(* and parts in both formats.  Every field of every message is set in one   *)
(* of them and left out in another.                                         *)
(***************************************************************************)
EXTENDS Disk

Layout == [type |-> 1, encoding |-> 2, compression |-> 3, nullable |-> TRUE, repeated |-> TRUE,
           unknown |-> <<>>]

LeafNode(name, layout) ==
    [type |-> [kind |-> "leaf",
               msg  |-> [name |-> name, storageLayout |-> layout, unknown |-> <<>>]],
     unknown |-> <<>>]

GroupNode(group) == [type |-> [kind |-> "group", msg |-> group], unknown |-> <<>>]

Group(name, nodes) == [name |-> name, nullable |-> nodes = <<>>, repeated |-> nodes = <<>>,
                       nodes |-> nodes, unknown |-> <<>>]

Sorting(path) == [path |-> path, direction |-> 1, nullsFirst |-> TRUE, unknown |-> <<>>]

SchemaV2 ==
    [root |-> Group(<<114>>, <<LeafNode(<<120>>, Layout), LeafNode(<<121>>, Nil),
                               GroupNode(Group(<<>>, <<>>))>>),
     sortingColumns |-> <<Sorting(<<120>>), ZeroSortingColumn>>,
     uniquePrimaryIndex |-> TRUE, unknown |-> <<>>]

SchemaV1 ==
    [name |-> <<115>>,
     columns |-> <<[name |-> <<120>>, storageLayout |-> Layout, dynamic |-> TRUE,
                    prehash |-> TRUE, unknown |-> <<>>], ZeroColumn>>,
     sortingColumns |-> <<Sorting(<<120>>)>>,
     uniquePrimaryIndex |-> FALSE, unknown |-> <<>>]

Config(kind, schema, size) ==
    [schema |-> [kind |-> kind, msg |-> schema], rowGroupSize |-> size,
     blockReaderLimit |-> size \div 2, disableWal |-> size > 0, unknown |-> <<>>]

\* the data of the second part ends like a snapshot
ArrowPart(t)   == [tx |-> t, level |-> 0, arrow |-> TRUE, data |-> <<1, 2>>]
ParquetPart(t) == [tx |-> t, level |-> 1, arrow |-> FALSE, data |-> <<70, 68, 66, 83>>]

TableA == [config |-> Config("v2", SchemaV2, 0), ulid |-> [i \in 1..16 |-> i], size |-> 0,
           minTx |-> 0, prevTx |-> 0, parts |-> <<ArrowPart(1), ParquetPart(300)>>]
TableB == [config |-> Config("deprecated", SchemaV1, 255), ulid |-> [i \in 1..16 |-> 255],
           size |-> 16384, minTx |-> 127, prevTx |-> 128, parts |-> <<ArrowPart(2)>>]

a == <<97>>
b == <<98>>

Both     == (a :> TableA) @@ (b :> TableB)
OnlyA    == (a :> TableA)
NoPartsB == (b :> [TableB EXCEPT !.parts = <<>>])

MCContents == {Both, OnlyA, NoPartsB}
MCLater    == {OnlyA, NoPartsB}
=============================================================================
