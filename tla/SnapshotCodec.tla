---------------------------- MODULE SnapshotCodec ----------------------------
(***************************************************************************)
(* The codecs of a snapshot's footer (snapshot/v1alpha1).                   *)
(***************************************************************************)
EXTENDS SchemaCodec

ZeroPart == [startOffset |-> 0, endOffset |-> 0, tx |-> 0, compactionLevel |-> 0, encoding |-> 0,
             unknown |-> <<>>]

MarshalPart(m) ==
    VarintField(1, m.startOffset) \o VarintField(2, m.endOffset) \o VarintField(3, m.tx)
    \o VarintField(4, m.compactionLevel) \o VarintField(5, m.encoding) \o m.unknown

SizePart(m) ==
    VarintSize(m.startOffset) + VarintSize(m.endOffset) + VarintSize(m.tx)
    + VarintSize(m.compactionLevel) + VarintSize(m.encoding) + Len(m.unknown)

SetPart(m, f) ==
    CASE f.num = 1 -> SetVarint(m, "startOffset", f)
      [] f.num = 2 -> SetVarint(m, "endOffset", f)
      [] f.num = 3 -> SetVarint(m, "tx", f)
      [] f.num = 4 -> SetVarint(m, "compactionLevel", f)
      [] f.num = 5 -> SetVarint(m, "encoding", f)
      [] OTHER     -> AppendUnknown(m, f)

ZeroGranule == [partMetadata |-> <<>>, unknown |-> <<>>]

MarshalGranule(m) ==
    Repeated(1, MarshalPart, m.partMetadata) \o m.unknown

SizeGranule(m) ==
    RepeatedSize(SizePart, m.partMetadata) + Len(m.unknown)

SetGranule(m, f) ==
    CASE f.num = 1 -> AddDecoded(m, "partMetadata", f, Unmarshal(SetPart, ZeroPart, f.body))
      [] OTHER     -> AppendUnknown(m, f)

ZeroTableBlock == [ulid |-> <<>>, size |-> 0, minTx |-> 0, prevTx |-> 0, unknown |-> <<>>]

MarshalTableBlock(m) ==
    BytesField(1, m.ulid) \o VarintField(2, m.size) \o VarintField(3, m.minTx)
    \o VarintField(4, m.prevTx) \o m.unknown

SizeTableBlock(m) ==
    BytesSize(m.ulid) + VarintSize(m.size) + VarintSize(m.minTx) + VarintSize(m.prevTx)
    + Len(m.unknown)

SetTableBlock(m, f) ==
    CASE f.num = 1 -> SetBytes(m, "ulid", f)
      [] f.num = 2 -> SetVarint(m, "size", f)
      [] f.num = 3 -> SetVarint(m, "minTx", f)
      [] f.num = 4 -> SetVarint(m, "prevTx", f)
      [] OTHER     -> AppendUnknown(m, f)

ZeroTable == [name |-> <<>>, config |-> Nil, activeBlock |-> Nil, granuleMetadata |-> <<>>,
              unknown |-> <<>>]

MarshalTable(m) ==
    BytesField(1, m.name)
    \o (IF m.config = Nil THEN <<>> ELSE Field(2, MarshalTableConfig(m.config)))
    \o (IF m.activeBlock = Nil THEN <<>> ELSE Field(3, MarshalTableBlock(m.activeBlock)))
    \o Repeated(4, MarshalGranule, m.granuleMetadata)
    \o m.unknown

SizeTable(m) ==
    BytesSize(m.name)
    + (IF m.config = Nil THEN 0 ELSE FieldSize(SizeTableConfig(m.config)))
    + (IF m.activeBlock = Nil THEN 0 ELSE FieldSize(SizeTableBlock(m.activeBlock)))
    + RepeatedSize(SizeGranule, m.granuleMetadata)
    + Len(m.unknown)

SetTable(m, f) ==
    CASE f.num = 1 -> SetBytes(m, "name", f)
      [] f.num = 2 -> SetDecoded(m, "config", f,
                          Unmarshal(SetTableConfig, OrNew(m.config, ZeroTableConfig), f.body))
      [] f.num = 3 -> SetDecoded(m, "activeBlock", f,
                          Unmarshal(SetTableBlock, OrNew(m.activeBlock, ZeroTableBlock), f.body))
      [] f.num = 4 -> AddDecoded(m, "granuleMetadata", f,
                          Unmarshal(SetGranule, ZeroGranule, f.body))
      [] OTHER     -> AppendUnknown(m, f)

ZeroFooterData == [tableMetadata |-> <<>>, unknown |-> <<>>]

MarshalFooterData(m) ==
    Repeated(1, MarshalTable, m.tableMetadata) \o m.unknown

SizeFooterData(m) ==
    RepeatedSize(SizeTable, m.tableMetadata) + Len(m.unknown)

SetFooterData(m, f) ==
    CASE f.num = 1 -> AddDecoded(m, "tableMetadata", f, Unmarshal(SetTable, ZeroTable, f.body))
      [] OTHER     -> AppendUnknown(m, f)
=============================================================================
