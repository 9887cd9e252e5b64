------------------------------- MODULE Compaction -------------------------------
(***************************************************************************)
(* What the compaction of a table makes of the rows of parts (compactParts  *)
(* in table.go, FindMaximumNonOverlappingSet in parts/part.go): the parts   *)
(* that do not overlap are put one after the other, and the result is       *)
(* merged with the others.                                                  *)
(*                                                                          *)
(* A part is an arrow record or a parquet file of one row group; its rows   *)
(* are sorted, and it has all the static columns.  The schema has no unique *)
(* primary index.                                                           *)
(***************************************************************************)
EXTENDS Converter

CONSTANT RowGroupSize    \* WithRowGroupSize; 0 is no limit

\* The sorting columns of the schema among the given ones.
SortingColumn(s, c) == IF s.dynamic THEN IsStrictPrefix(s.name, c) ELSE c = s.name
ParquetSortingColumns(cols) ==
    FlattenSeq([k \in DOMAIN SortingColumns |-> SortNames({c \in cols : SortingColumn(SortingColumns[k], c)})])

\* A row outside its part: the columns that only the other row has are null.
DynamicRow(part, i) == [cols |-> part.cols, row |-> part.rows[i]]
Least(part) == DynamicRow(part, 1)
Most(part) == DynamicRow(part, Len(part.rows))
Key(r, by) == [k \in DOMAIN by |-> Cell(r.cols, r.row, by[k])]
CmpBy(r, s, by) ==
    CASE RowLess(Key(r, by), Key(s, by), Numbers(by)) -> -1
      [] RowLess(Key(s, by), Key(r, by), Numbers(by)) -> 1
      [] OTHER -> 0
Cmp(r, s) == CmpBy(r, s, ParquetSortingColumns(ToSet(r.cols) \cup ToSet(s.cols)))

\* sort.Sort by the least rows, which is stable for a few parts.
PartBefore(parts, i, j) ==
    \/ Cmp(Least(parts[i]), Least(parts[j])) < 0
    \/ Cmp(Least(parts[i]), Least(parts[j])) = 0 /\ i < j
SortParts(parts) ==
    LET order == SetToSortSeq(DOMAIN parts, LAMBDA i, j : PartBefore(parts, i, j))
    IN [k \in DOMAIN parts |-> parts[order[k]]]

(***************************************************************************)
(* FindMaximumNonOverlappingSet.  prev is the part that the next one is     *)
(* compared with; of two that overlap the one with the higher end goes.     *)
(***************************************************************************)
ComparePart(ps, acc, i) ==
    CASE Cmp(Most(ps[acc.prev]), Least(ps[i])) <= 0 ->
            [acc EXCEPT !.prev = i, !.non = Append(@, ps[acc.prev])]
      [] Cmp(Most(ps[acc.prev]), Least(ps[i])) > 0 /\ Cmp(Most(ps[acc.prev]), Most(ps[i])) >= 0 ->
            [acc EXCEPT !.prev = i, !.over = Append(@, ps[acc.prev])]
      [] OTHER -> [acc EXCEPT !.over = Append(@, ps[i])]

\* mutant: when the last part is removed, the one it was compared with is in neither set
LastPartForgotten(ps, acc) ==
    IF acc.prev = Len(ps) THEN [acc EXCEPT !.non = Append(@, ps[acc.prev])] ELSE acc

\* The last part; when it was removed, the one it was compared with is merged as well.
LastPart(ps, acc) ==
    IF acc.prev = Len(ps) THEN [acc EXCEPT !.non = Append(@, ps[acc.prev])]
    ELSE [acc EXCEPT !.over = Append(@, ps[acc.prev])]
SplitParts(ps) ==
    LastPart(ps, FoldLeft(LAMBDA acc, i : ComparePart(ps, acc, i),
                          [prev |-> 1, non |-> <<>>, over |-> <<>>], Tail(Numbers(ps))))
FindMaximumNonOverlappingSet(parts) == SplitParts(SortParts(parts))

(***************************************************************************)
(* The rows of the result, in the columns of all parts.                     *)
(***************************************************************************)
MergedColumns(parts) == SortNames(UNION {ToSet(parts[k].cols) : k \in DOMAIN parts})
Runs(parts, cols) == [k \in DOMAIN parts |-> FitRows(parts[k].rows, parts[k].cols, cols)]

\* Each part that overlaps is a run of its own; the others are one.
buffersForCompaction(sets, cols) ==
    Runs(sets.over, cols) \o (IF sets.non = <<>> THEN <<>> ELSE <<FlattenSeq(Runs(sets.non, cols))>>)
WrittenDirectly(sets) ==
    sets.over = <<>> /\ Len(sets.non) > 1 /\ \A k \in DOMAIN sets.non : sets.non[k].kind = "record"
MergeDynamicRowGroups(runs, cols) ==
    LET by == ParquetSortingColumns(ToSet(cols))
    IN MergeRows(runs, [k \in DOMAIN by |-> FieldIndices(cols, by[k])[1]])

\* writeRows: a row group is flushed when it is full.
ParquetRowGroup(cols, rows) == [kind |-> "parquet", cols |-> cols, rows |-> rows]
writeRows(cols, rows, size) ==
    [g \in 1..(Len(rows) + size - 1) \div size |->
        ParquetRowGroup(cols, SubSeq(rows, (g - 1) * size + 1, Min({g * size, Len(rows)})))]
RowLimit(rows) == IF RowGroupSize > 0 THEN RowGroupSize ELSE Len(rows)

WriteParts(sets, cols, rows) ==
    IF WrittenDirectly(sets) THEN <<ParquetRowGroup(cols, rows)>> ELSE writeRows(cols, rows, RowLimit(rows))
CompactSets(sets, cols) == WriteParts(sets, cols, MergeDynamicRowGroups(buffersForCompaction(sets, cols), cols))
compactParts(parts) == CompactSets(FindMaximumNonOverlappingSet(parts), MergedColumns(parts))

\* A single part is only converted.
parquetCompaction(parts) ==
    IF Len(parts) = 1 THEN <<ParquetRowGroup(parts[1].cols, parts[1].rows)>> ELSE compactParts(parts)
================================================================================
