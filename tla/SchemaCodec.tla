----------------------------- MODULE SchemaCodec -----------------------------
(***************************************************************************)
(* The codecs of table schemas and table configurations                     *)
(* (schema/v1alpha1, schema/v1alpha2 and table/v1alpha1): for a message X,  *)
(* ZeroX is the empty one, MarshalX the bytes that MarshalToSizedBufferVT     *)
(* writes, SizeX is SizeVT and SetX the field switch of UnmarshalVT.        *)
(***************************************************************************)
EXTENDS Wire

\* StorageLayout and SortingColumn (whose path v1alpha1 calls name)
ZeroStorageLayout ==
    [type |-> 0, encoding |-> 0, compression |-> 0, nullable |-> FALSE, repeated |-> FALSE,
     unknown |-> <<>>]

MarshalStorageLayout(m) ==
    VarintField(1, m.type) \o VarintField(2, m.encoding) \o VarintField(3, m.compression)
    \o BoolField(4, m.nullable) \o BoolField(5, m.repeated) \o m.unknown

SizeStorageLayout(m) ==
    VarintSize(m.type) + VarintSize(m.encoding) + VarintSize(m.compression)
    + BoolSize(m.nullable) + BoolSize(m.repeated) + Len(m.unknown)

SetStorageLayout(m, f) ==
    CASE f.num = 1 -> SetVarint(m, "type", f)
      [] f.num = 2 -> SetVarint(m, "encoding", f)
      [] f.num = 3 -> SetVarint(m, "compression", f)
      [] f.num = 4 -> SetBool(m, "nullable", f)
      [] f.num = 5 -> SetBool(m, "repeated", f)
      [] OTHER     -> AppendUnknown(m, f)

ZeroSortingColumn == [path |-> <<>>, direction |-> 0, nullsFirst |-> FALSE, unknown |-> <<>>]

MarshalSortingColumn(m) ==
    BytesField(1, m.path) \o VarintField(2, m.direction) \o BoolField(3, m.nullsFirst)
    \o m.unknown

SizeSortingColumn(m) ==
    BytesSize(m.path) + VarintSize(m.direction) + BoolSize(m.nullsFirst) + Len(m.unknown)

SetSortingColumn(m, f) ==
    CASE f.num = 1 -> SetBytes(m, "path", f)
      [] f.num = 2 -> SetVarint(m, "direction", f)
      [] f.num = 3 -> SetBool(m, "nullsFirst", f)
      [] OTHER     -> AppendUnknown(m, f)

\* every element of a repeated field is a field of its own
Repeated(num, Marshal(_), ms) == FoldLeft(LAMBDA bs, m : bs \o Field(num, Marshal(m)), <<>>, ms)
RepeatedSize(Size(_), ms)     == FoldLeft(LAMBDA n, m : n + FieldSize(Size(m)), 0, ms)
-----------------------------------------------------------------------------
(***************************************************************************)
(* v1alpha2: a schema is a tree of groups and leaves.                       *)
(***************************************************************************)
ZeroLeaf == [name |-> <<>>, storageLayout |-> Nil, unknown |-> <<>>]

MarshalLeaf(m) ==
    BytesField(1, m.name)
    \o (IF m.storageLayout = Nil THEN <<>> ELSE Field(2, MarshalStorageLayout(m.storageLayout)))
    \o m.unknown

SizeLeaf(m) ==
    BytesSize(m.name)
    + (IF m.storageLayout = Nil THEN 0 ELSE FieldSize(SizeStorageLayout(m.storageLayout)))
    + Len(m.unknown)

SetLeaf(m, f) ==
    CASE f.num = 1 -> SetBytes(m, "name", f)
      [] f.num = 2 -> SetDecoded(m, "storageLayout", f,
                          Unmarshal(SetStorageLayout, OrNew(m.storageLayout, ZeroStorageLayout),
                                    f.body))
      [] OTHER     -> AppendUnknown(m, f)

ZeroNode  == [type |-> NoOneof, unknown |-> <<>>]
ZeroGroup == [name |-> <<>>, nullable |-> FALSE, repeated |-> FALSE, nodes |-> <<>>,
             unknown |-> <<>>]

RECURSIVE MarshalGroup(_), SizeGroup(_), SetGroup(_, _)
MarshalNode(m) ==
    (CASE m.type.kind = "leaf"  -> Field(1, MarshalLeaf(m.type.msg))
       [] m.type.kind = "group" -> Field(2, MarshalGroup(m.type.msg))
       [] OTHER                 -> <<>>)
    \o m.unknown

SizeNode(m) ==
    (CASE m.type.kind = "leaf"  -> FieldSize(SizeLeaf(m.type.msg))
       [] m.type.kind = "group" -> FieldSize(SizeGroup(m.type.msg))
       [] OTHER                 -> 0)
    + Len(m.unknown)

SetNode(m, f) ==
    CASE f.num = 1 -> SetOneof(m, "type", f, "leaf",
                          Unmarshal(SetLeaf, OfKind(m.type, "leaf", ZeroLeaf), f.body))
      [] f.num = 2 -> SetOneof(m, "type", f, "group",
                          Unmarshal(SetGroup, OfKind(m.type, "group", ZeroGroup), f.body))
      [] OTHER     -> AppendUnknown(m, f)

MarshalGroup(m) ==
    BytesField(1, m.name) \o BoolField(2, m.nullable) \o BoolField(3, m.repeated)
    \o Repeated(4, MarshalNode, m.nodes) \o m.unknown

SizeGroup(m) ==
    BytesSize(m.name) + BoolSize(m.nullable) + BoolSize(m.repeated)
    + RepeatedSize(SizeNode, m.nodes) + Len(m.unknown)

SetGroup(m, f) ==
    CASE f.num = 1 -> SetBytes(m, "name", f)
      [] f.num = 2 -> SetBool(m, "nullable", f)
      [] f.num = 3 -> SetBool(m, "repeated", f)
      [] f.num = 4 -> AddDecoded(m, "nodes", f, Unmarshal(SetNode, ZeroNode, f.body))
      [] OTHER     -> AppendUnknown(m, f)

ZeroSchema == [root |-> Nil, sortingColumns |-> <<>>, uniquePrimaryIndex |-> FALSE,
              unknown |-> <<>>]

MarshalSchema(m) ==
    (IF m.root = Nil THEN <<>> ELSE Field(2, MarshalGroup(m.root)))
    \o Repeated(3, MarshalSortingColumn, m.sortingColumns)
    \o BoolField(4, m.uniquePrimaryIndex) \o m.unknown

SizeSchema(m) ==
    (IF m.root = Nil THEN 0 ELSE FieldSize(SizeGroup(m.root)))
    + RepeatedSize(SizeSortingColumn, m.sortingColumns)
    + BoolSize(m.uniquePrimaryIndex) + Len(m.unknown)

SetSchema(m, f) ==
    CASE f.num = 2 -> SetDecoded(m, "root", f,
                          Unmarshal(SetGroup, OrNew(m.root, ZeroGroup), f.body))
      [] f.num = 3 -> AddDecoded(m, "sortingColumns", f,
                          Unmarshal(SetSortingColumn, ZeroSortingColumn, f.body))
      [] f.num = 4 -> SetBool(m, "uniquePrimaryIndex", f)
      [] OTHER     -> AppendUnknown(m, f)
-----------------------------------------------------------------------------
(***************************************************************************)
(* v1alpha1: a schema is a list of columns.                                 *)
(***************************************************************************)
ZeroColumn == [name |-> <<>>, storageLayout |-> Nil, dynamic |-> FALSE, prehash |-> FALSE,
              unknown |-> <<>>]

MarshalColumn(m) ==
    BytesField(1, m.name)
    \o (IF m.storageLayout = Nil THEN <<>> ELSE Field(2, MarshalStorageLayout(m.storageLayout)))
    \o BoolField(3, m.dynamic) \o BoolField(4, m.prehash) \o m.unknown

SizeColumn(m) ==
    BytesSize(m.name)
    + (IF m.storageLayout = Nil THEN 0 ELSE FieldSize(SizeStorageLayout(m.storageLayout)))
    + BoolSize(m.dynamic) + BoolSize(m.prehash) + Len(m.unknown)

SetColumn(m, f) ==
    CASE f.num = 1 -> SetBytes(m, "name", f)
      [] f.num = 2 -> SetDecoded(m, "storageLayout", f,
                          Unmarshal(SetStorageLayout, OrNew(m.storageLayout, ZeroStorageLayout),
                                    f.body))
      [] f.num = 3 -> SetBool(m, "dynamic", f)
      [] f.num = 4 -> SetBool(m, "prehash", f)
      [] OTHER     -> AppendUnknown(m, f)

ZeroSchemaV1 == [name |-> <<>>, columns |-> <<>>, sortingColumns |-> <<>>,
                uniquePrimaryIndex |-> FALSE, unknown |-> <<>>]

MarshalSchemaV1(m) ==
    BytesField(1, m.name)
    \o Repeated(2, MarshalColumn, m.columns)
    \o Repeated(3, MarshalSortingColumn, m.sortingColumns)
    \o BoolField(4, m.uniquePrimaryIndex) \o m.unknown

SizeSchemaV1(m) ==
    BytesSize(m.name) + RepeatedSize(SizeColumn, m.columns)
    + RepeatedSize(SizeSortingColumn, m.sortingColumns)
    + BoolSize(m.uniquePrimaryIndex) + Len(m.unknown)

SetSchemaV1(m, f) ==
    CASE f.num = 1 -> SetBytes(m, "name", f)
      [] f.num = 2 -> AddDecoded(m, "columns", f, Unmarshal(SetColumn, ZeroColumn, f.body))
      [] f.num = 3 -> AddDecoded(m, "sortingColumns", f,
                          Unmarshal(SetSortingColumn, ZeroSortingColumn, f.body))
      [] f.num = 4 -> SetBool(m, "uniquePrimaryIndex", f)
      [] OTHER     -> AppendUnknown(m, f)
-----------------------------------------------------------------------------
(***************************************************************************)
(* TableConfig: its schema, of either version, comes after the other fields *)
(* although its field numbers are lower.                                    *)
(***************************************************************************)
ZeroTableConfig == [schema |-> NoOneof, rowGroupSize |-> 0, blockReaderLimit |-> 0,
                   disableWal |-> FALSE, unknown |-> <<>>]

MarshalTableConfig(m) ==
    VarintField(3, m.rowGroupSize) \o VarintField(4, m.blockReaderLimit)
    \o BoolField(5, m.disableWal)
    \o (CASE m.schema.kind = "deprecated" -> Field(1, MarshalSchemaV1(m.schema.msg))
          [] m.schema.kind = "v2"         -> Field(2, MarshalSchema(m.schema.msg))
          [] OTHER                        -> <<>>)
    \o m.unknown

SizeTableConfig(m) ==
    (CASE m.schema.kind = "deprecated" -> FieldSize(SizeSchemaV1(m.schema.msg))
       [] m.schema.kind = "v2"         -> FieldSize(SizeSchema(m.schema.msg))
       [] OTHER                        -> 0)
    + VarintSize(m.rowGroupSize) + VarintSize(m.blockReaderLimit) + BoolSize(m.disableWal)
    + Len(m.unknown)

SetTableConfig(m, f) ==
    CASE f.num = 1 -> SetOneof(m, "schema", f, "deprecated",
                          Unmarshal(SetSchemaV1, OfKind(m.schema, "deprecated", ZeroSchemaV1),
                                    f.body))
      [] f.num = 2 -> SetOneof(m, "schema", f, "v2",
                          Unmarshal(SetSchema, OfKind(m.schema, "v2", ZeroSchema), f.body))
      [] f.num = 3 -> SetVarint(m, "rowGroupSize", f)
      [] f.num = 4 -> SetVarint(m, "blockReaderLimit", f)
      [] f.num = 5 -> SetBool(m, "disableWal", f)
      [] OTHER     -> AppendUnknown(m, f)
=============================================================================
