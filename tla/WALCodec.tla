------------------------------- MODULE WALCodec ------------------------------
(***************************************************************************)
(* The codecs of the records of the write-ahead log (wal/v1alpha1).         *)
(***************************************************************************)
EXTENDS SchemaCodec

ZeroWrite == [tableName |-> <<>>, data |-> <<>>, arrow |-> FALSE, unknown |-> <<>>]

MarshalWrite(m) ==
    BytesField(1, m.tableName) \o BytesField(2, m.data) \o BoolField(3, m.arrow) \o m.unknown

SizeWrite(m) ==
    BytesSize(m.tableName) + BytesSize(m.data) + BoolSize(m.arrow) + Len(m.unknown)

SetWrite(m, f) ==
    CASE f.num = 1 -> SetBytes(m, "tableName", f)
      [] f.num = 2 -> SetBytes(m, "data", f)
      [] f.num = 3 -> SetBool(m, "arrow", f)
      [] OTHER     -> AppendUnknown(m, f)

ZeroNewTableBlock == [tableName |-> <<>>, blockId |-> <<>>, config |-> Nil, unknown |-> <<>>]

MarshalNewTableBlock(m) ==
    BytesField(1, m.tableName) \o BytesField(2, m.blockId)
    \o (IF m.config = Nil THEN <<>> ELSE Field(5, MarshalTableConfig(m.config))) \o m.unknown

SizeNewTableBlock(m) ==
    BytesSize(m.tableName) + BytesSize(m.blockId)
    + (IF m.config = Nil THEN 0 ELSE FieldSize(SizeTableConfig(m.config))) + Len(m.unknown)

SetNewTableBlock(m, f) ==
    CASE f.num = 1 -> SetBytes(m, "tableName", f)
      [] f.num = 2 -> SetBytes(m, "blockId", f)
      [] f.num = 5 -> SetDecoded(m, "config", f,
                          Unmarshal(SetTableConfig, OrNew(m.config, ZeroTableConfig), f.body))
      [] OTHER     -> AppendUnknown(m, f)

ZeroTableBlockPersisted == [tableName |-> <<>>, blockId |-> <<>>, unknown |-> <<>>]

MarshalTableBlockPersisted(m) ==
    BytesField(1, m.tableName) \o BytesField(2, m.blockId) \o m.unknown

SizeTableBlockPersisted(m) == BytesSize(m.tableName) + BytesSize(m.blockId) + Len(m.unknown)

SetTableBlockPersisted(m, f) ==
    CASE f.num = 1 -> SetBytes(m, "tableName", f)
      [] f.num = 2 -> SetBytes(m, "blockId", f)
      [] OTHER     -> AppendUnknown(m, f)

ZeroSnapshot == [tx |-> 0, unknown |-> <<>>]

MarshalSnapshot(m) == VarintField(1, m.tx) \o m.unknown

SizeSnapshot(m) == VarintSize(m.tx) + Len(m.unknown)

SetSnapshot(m, f) ==
    CASE f.num = 1 -> SetVarint(m, "tx", f)
      [] OTHER     -> AppendUnknown(m, f)
-----------------------------------------------------------------------------
ZeroEntry == [entryType |-> NoOneof, unknown |-> <<>>]

MarshalEntryType(e) ==
    CASE e.kind = "write"               -> Field(1, MarshalWrite(e.msg))
      [] e.kind = "newTableBlock"       -> Field(2, MarshalNewTableBlock(e.msg))
      [] e.kind = "tableBlockPersisted" -> Field(3, MarshalTableBlockPersisted(e.msg))
      [] e.kind = "snapshot"            -> Field(4, MarshalSnapshot(e.msg))
      [] OTHER                          -> <<>>

SizeEntryType(e) ==
    CASE e.kind = "write"               -> FieldSize(SizeWrite(e.msg))
      [] e.kind = "newTableBlock"       -> FieldSize(SizeNewTableBlock(e.msg))
      [] e.kind = "tableBlockPersisted" -> FieldSize(SizeTableBlockPersisted(e.msg))
      [] e.kind = "snapshot"            -> FieldSize(SizeSnapshot(e.msg))
      [] OTHER                          -> 0

MarshalEntry(m) == MarshalEntryType(m.entryType) \o m.unknown

SizeEntry(m) == SizeEntryType(m.entryType) + Len(m.unknown)

SetEntry(m, f) ==
    CASE f.num = 1 -> SetOneof(m, "entryType", f, "write",
                          Unmarshal(SetWrite, OfKind(m.entryType, "write", ZeroWrite), f.body))
      [] f.num = 2 -> SetOneof(m, "entryType", f, "newTableBlock",
                          Unmarshal(SetNewTableBlock,
                                    OfKind(m.entryType, "newTableBlock", ZeroNewTableBlock),
                                    f.body))
      [] f.num = 3 -> SetOneof(m, "entryType", f, "tableBlockPersisted",
                          Unmarshal(SetTableBlockPersisted,
                                    OfKind(m.entryType, "tableBlockPersisted",
                                           ZeroTableBlockPersisted), f.body))
      [] f.num = 4 -> SetOneof(m, "entryType", f, "snapshot",
                          Unmarshal(SetSnapshot,
                                    OfKind(m.entryType, "snapshot", ZeroSnapshot), f.body))
      [] OTHER     -> AppendUnknown(m, f)

ZeroRecord == [entry |-> Nil, unknown |-> <<>>]

MarshalRecord(m) ==
    (IF m.entry = Nil THEN <<>> ELSE Field(1, MarshalEntry(m.entry))) \o m.unknown

SizeRecord(m) ==
    (IF m.entry = Nil THEN 0 ELSE FieldSize(SizeEntry(m.entry))) + Len(m.unknown)

SetRecord(m, f) ==
    CASE f.num = 1 -> SetDecoded(m, "entry", f,
                          Unmarshal(SetEntry, OrNew(m.entry, ZeroEntry), f.body))
      [] OTHER     -> AppendUnknown(m, f)
=============================================================================
