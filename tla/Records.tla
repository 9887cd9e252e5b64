-------------------------------- MODULE Records --------------------------------
(***************************************************************************)
(* Arrow records and the row-level algorithms of a query: matching columns, *)
(* evaluating filters on records and on the column index of a row group,    *)
(* projections, merging sorted records, finding groups, and the conversion  *)
(* of parquet row groups to records.                                        *)
(*                                                                          *)
(* A column name is a sequence of numbers: <<a>> is a static column and     *)
(* <<l, x>> the concrete column x of the dynamic column l; the order on     *)
(* numbers stands for the order on strings.  A value is a natural number or *)
(* Null.  A record has its column names in field order and its rows.        *)
(***************************************************************************)
EXTENDS Integers, Sequences, FiniteSets, SequencesExt, FiniteSetsExt

CONSTANTS IntColumns,     \* roots of the int64 columns; the others are dictionaries
          SortingColumns, \* the sorting columns of the table's schema
          PageSize        \* rows of a parquet page

Null == -1
\* The empty string of a dictionary column; also what the bytes of a null compare as.
EmptyString == 0
\* The prefix "hashed." of the columns that carry hashes.
HashedPrefix == 0
HashedColumnName(c) == <<HashedPrefix>> \o c
IsHashedColumn(c) == Len(c) > 1 /\ c[1] = HashedPrefix
IsInt64(c) == c[1] \in IntColumns

Numbers(s) == [i \in 1..Len(s) |-> i]
FieldIndices(cols, c) == SelectSeq(Numbers(cols), LAMBDA i : cols[i] = c)
HasField(cols, c) == c \in ToSet(cols)
Cell(cols, row, c) == IF HasField(cols, c) THEN row[FieldIndices(cols, c)[1]] ELSE Null

\* Lexicographic order of column names, as sort.Strings orders them.
NameLess(c, d) ==
    \/ IsStrictPrefix(c, d)
    \/ \E k \in 1..Min({Len(c), Len(d)}) :
          /\ c[k] < d[k]
          /\ SubSeq(c, 1, k - 1) = SubSeq(d, 1, k - 1)
SortNames(S) == SetToSortSeq(S, NameLess)

(***************************************************************************)
(* Column expressions.                                                      *)
(***************************************************************************)
Col(c) == [expr |-> "column", name |-> c]
DynCol(l) == [expr |-> "dynamic", name |-> <<l>>]
NotDynCol(l) == [expr |-> "notDynamic", name |-> <<l>>]
All == [expr |-> "all", name |-> <<HashedPrefix>>]
Gt(c, v, name) == [expr |-> "gt", col |-> c, lit |-> v, name |-> name]

MatchColumn(e, c) ==
    CASE e.expr = "all"        -> TRUE
      [] e.expr = "dynamic"    -> IsStrictPrefix(e.name, c)
      [] e.expr = "notDynamic" -> ~IsStrictPrefix(e.name, c)
      [] OTHER                 -> e.name = c
Matching(cols, exprs) ==
    SelectSeq(Numbers(cols), LAMBDA i : \E k \in DOMAIN exprs : MatchColumn(exprs[k], cols[i]))
Included(exprs, c) == exprs = <<>> \/ \E k \in DOMAIN exprs : MatchColumn(exprs[k], c)

(***************************************************************************)
(* The boolean expressions of a filter, evaluated on the rows of a record.  *)
(* A leaf compares a column with a literal, or with a regular expression    *)
(* given by the set of the strings it accepts.                              *)
(***************************************************************************)
Compare(v, w) == CASE v < w -> -1 [] v = w -> 0 [] OTHER -> 1

\* The row-wise loops of binaryscalarexpr.go: a null row satisfies no comparison
\* but == null, and != on the columns that are not dictionaries.
BinaryScalarOperation(isInt, v, lit, op) ==
    CASE op = "==" -> v = lit
      [] op = "!=" -> v # lit /\ (v # Null \/ isInt)
      [] op = "<"  -> v # Null /\ v < lit
      [] op = "<=" -> v # Null /\ v <= lit
      [] op = ">"  -> v # Null /\ v > lit
      [] op = ">=" -> v # Null /\ v >= lit

\* BinaryScalarExpr.Eval for a column that the record does not have.
MissingColumn(isInt, lit, op) ==
    CASE op = "==" -> lit = Null \/ isInt \/ lit = EmptyString
      [] op = "!=" -> lit # Null
      [] OTHER     -> FALSE

RegExpMissing(lit, op) == (op = "=~") = (EmptyString \in lit)
RegExpMatch(v, lit, op) == v # Null /\ ((op = "=~") = (v \in lit))

RegExp(e) == e.op \in {"=~", "!~"}
LeafHolds(e, cols, row) ==
    IF Len(FieldIndices(cols, e.col)) # 1
    THEN IF RegExp(e) THEN RegExpMissing(e.lit, e.op)
         ELSE MissingColumn(IsInt64(e.col), e.lit, e.op)
    ELSE IF RegExp(e) THEN RegExpMatch(Cell(cols, row, e.col), e.lit, e.op)
         ELSE BinaryScalarOperation(IsInt64(e.col), Cell(cols, row, e.col), e.lit, e.op)

RECURSIVE EvalRow(_, _, _)
EvalRow(e, cols, row) ==
    CASE e.op = "and" -> EvalRow(e.left, cols, row) /\ EvalRow(e.right, cols, row)
      [] e.op = "or"  -> EvalRow(e.left, cols, row) \/ EvalRow(e.right, cols, row)
      [] OTHER        -> LeafHolds(e, cols, row)

\* filter: the rows of the bitmap, in their order, cut out as index ranges.
FilterRecord(e, r) ==
    [cols |-> r.cols, rows |-> SelectSeq(r.rows, LAMBDA row : EvalRow(e, r.cols, row))]

RECURSIVE FilterColumnsUsed(_)
FilterColumnsUsed(e) ==
    IF e.op \in {"and", "or"} THEN FilterColumnsUsed(e.left) \o FilterColumnsUsed(e.right)
    ELSE <<Col(e.col)>>

(***************************************************************************)
(* The same expressions on the column index of a row group, to skip it.     *)
(* The index of a column has, for every page, the null count and the least  *)
(* and greatest value, which are null for a page of nulls.                  *)
(***************************************************************************)
Bytes(v) == IF v = Null THEN EmptyString ELSE v
CompareValues(v, w) == Compare(Bytes(v), Bytes(w))

Pages(rg, c) ==
    LET vals == [i \in DOMAIN rg.rows |-> Cell(rg.cols, rg.rows[i], c)]
        n    == (Len(vals) + PageSize - 1) \div PageSize
    IN [p \in 1..n |-> SubSeq(vals, (p - 1) * PageSize + 1, Min({p * PageSize, Len(vals)}))]
NonNull(page) == ToSet(page) \ {Null}
MinValue(page) == IF NonNull(page) = {} THEN Null ELSE Min(NonNull(page))
MaxValue(page) == IF NonNull(page) = {} THEN Null ELSE Max(NonNull(page))
NullCount(pages) == Len(SelectSeq(FlattenSeq(pages), LAMBDA v : v = Null))

\* Min and Max across the pages, folded as the loops of the index filter do.
LeastValue(m, v) == IF m = Null THEN v ELSE IF CompareValues(m, v) = 1 THEN v ELSE m
GreatestValue(m, v) == IF m = Null THEN v ELSE IF CompareValues(m, v) = -1 THEN v ELSE m
ChunkMin(pages) ==
    FoldLeft(LeastValue, MinValue(pages[1]), [i \in 1..Len(pages) - 1 |-> MinValue(pages[i + 1])])
ChunkMax(pages) ==
    FoldLeft(GreatestValue, MaxValue(pages[1]), [i \in 1..Len(pages) - 1 |-> MaxValue(pages[i + 1])])

\* BinaryScalarExpr.Eval on a row group that does not have the column.
IndexMissing(isInt, lit, op) ==
    CASE lit = Null /\ op \in {"==", "!="} -> op = "=="
      [] lit # Null /\ ~isInt /\ op = "==" -> lit = EmptyString
      [] lit # Null /\ ~isInt /\ op = "!=" -> lit # EmptyString
      [] OTHER                             -> FALSE

\* BinaryScalarOperation on a column chunk without a bloom filter.
IndexBounds(nulls, full, min, max, lit, op) ==
    CASE lit = Null -> op = "==" => nulls > 0
      [] lit # Null /\ full -> FALSE
      [] op = "==" /\ lit # Null /\ ~full -> CompareValues(lit, max) <= 0 /\ CompareValues(lit, min) >= 0
      [] op = "<=" /\ lit # Null /\ ~full -> min = Null \/ CompareValues(min, lit) <= 0
      [] op = "<" /\ lit # Null /\ ~full  -> min = Null \/ CompareValues(min, lit) < 0
      [] op = ">" /\ lit # Null /\ ~full  -> max = Null \/ CompareValues(max, lit) > 0
      [] op = ">=" /\ lit # Null /\ ~full -> max = Null \/ CompareValues(max, lit) >= 0
      [] OTHER -> TRUE
IndexOperation(pages, lit, op) ==
    IndexBounds(NullCount(pages), NullCount(pages) = Len(FlattenSeq(pages)), ChunkMin(pages), ChunkMax(pages), lit, op)

\* The TrueNegativeFilter of an expression: FALSE rules the row group out.
RECURSIVE MayMatch(_, _)
MayMatch(e, rg) ==
    CASE e.op = "and" -> MayMatch(e.left, rg) /\ MayMatch(e.right, rg)
      [] e.op = "or"  -> MayMatch(e.left, rg) \/ MayMatch(e.right, rg)
      [] RegExp(e)    -> TRUE
      [] HasField(rg.cols, e.col) /\ ~RegExp(e) ->
            IndexOperation(Pages(rg, e.col), e.lit, e.op)
      [] OTHER        -> IndexMissing(IsInt64(e.col), e.lit, e.op)

(***************************************************************************)
(* Projections.  A projected column is a pair of its name and its values.   *)
(***************************************************************************)
Vector(r, i) == [k \in DOMAIN r.rows |-> r.rows[k][i]]
Select(r, I) ==
    [cols |-> [k \in DOMAIN I |-> r.cols[I[k]]],
     rows |-> [j \in DOMAIN r.rows |-> [k \in DOMAIN I |-> r.rows[j][I[k]]]]]

\* pqarrow.Project keeps the number of rows even when no column is left.
PhysicalProject(exprs, r) ==
    IF exprs = <<>> THEN r ELSE Select(r, Matching(r.cols, exprs))

First(s) == SubSeq(s, 1, Min({1, Len(s)}))
Columns(r, I) == [k \in DOMAIN I |-> <<r.cols[I[k]], Vector(r, I[k])>>]

\* binaryExprProjection: the non-null results computed by the scan win.
GtProjection(e, r) ==
    LET filter == [op |-> ">", col |-> e.col, lit |-> e.lit]
        value(row) == LET done == Cell(r.cols, row, e.name)
                      IN IF done # Null THEN done
                         ELSE IF EvalRow(filter, r.cols, row) THEN 1 ELSE 0
    IN << <<e.name, [k \in DOMAIN r.rows |-> value(r.rows[k])]>> >>

AverageProjection(e, r) ==
    LET s == FieldIndices(r.cols, e.sum)
        c == FieldIndices(r.cols, e.count)
        others == SelectSeq(Numbers(r.cols), LAMBDA i : i # s[1] /\ i # c[1])
        mean(row) == row[s[1]] \div row[c[1]]
    IN Columns(r, others) \o << <<e.name, [k \in DOMAIN r.rows |-> mean(r.rows[k])]>> >>
AverageFails(e, r) == Len(FieldIndices(r.cols, e.sum)) # 1 \/ Len(FieldIndices(r.cols, e.count)) # 1

ProjectColumn(e, r) ==
    CASE e.expr = "all"               -> Columns(r, Numbers(r.cols))
      [] e.expr = "dynamic"           -> Columns(r, Matching(r.cols, <<e>>))
      [] e.expr \in {"column", "alias"} -> Columns(r, First(FieldIndices(r.cols, e.name)))
      [] e.expr = "gt"                -> GtProjection(e, r)
      [] e.expr = "average"           -> AverageProjection(e, r)

\* Projection.Callback: a record with no projected column has no rows.
ProjectFails(exprs, r) == \E k \in DOMAIN exprs : exprs[k].expr = "average" /\ AverageFails(exprs[k], r)
NewRecord(columns) ==
    [cols |-> [k \in DOMAIN columns |-> columns[k][1]],
     rows |-> [j \in 1..IF columns = <<>> THEN 0 ELSE Len(columns[1][2]) |->
                  [k \in DOMAIN columns |-> columns[k][2][j]]]]
ProjectRecord(exprs, r) == NewRecord(FlattenSeq([k \in DOMAIN exprs |-> ProjectColumn(exprs[k], r)]))

(***************************************************************************)
(* Ordered records: merging them, and finding their groups and the ordered  *)
(* sets of groups.  Nulls sort first.                                       *)
(***************************************************************************)
NullComparison(leftNull, rightNull) ==
    CASE leftNull /\ ~rightNull -> -1 [] ~leftNull /\ rightNull -> 1 [] OTHER -> 0
CompareCells(v, w) ==
    IF v = Null \/ w = Null THEN NullComparison(v = Null, w = Null) ELSE Compare(v, w)

RowLess(v, w, by) ==
    \E k \in DOMAIN by : /\ CompareCells(v[by[k]], w[by[k]]) = -1
                         /\ \A j \in 1..k - 1 : CompareCells(v[by[j]], w[by[j]]) = 0

\* MergeRecords: the cursor with the least row gives its row and moves on.
LeastRun(runs, by) ==
    CHOOSE i \in {m \in DOMAIN runs : runs[m] # <<>>} : \A j \in DOMAIN runs \ {i} :
        runs[j] # <<>> => IF j < i THEN RowLess(Head(runs[i]), Head(runs[j]), by)
                                   ELSE ~RowLess(Head(runs[j]), Head(runs[i]), by)
PopRow(acc, i) == [runs |-> [acc.runs EXCEPT ![i] = Tail(@)], rows |-> Append(acc.rows, Head(acc.runs[i]))]
MergeRows(runs, by) ==
    FoldLeft(LAMBDA acc, n : PopRow(acc, LeastRun(acc.runs, by)),
             [runs |-> runs, rows |-> <<>>], Numbers(FlattenSeq(runs))).rows
MergeRecords(recs, by) ==
    [cols |-> recs[1].cols, rows |-> MergeRows([i \in DOMAIN recs |-> recs[i].rows], by)]

\* GetGroupsAndOrderedSetRanges: where, counting from 0, some column differs from the
\* row before (the first group for row 0), and where some column decreases.
PreviousKey(firstGroup, keys, i) == IF i = 0 THEN firstGroup ELSE keys[i]
GroupRanges(firstGroup, keys) ==
    {i \in 0..Len(keys) - 1 : \E k \in DOMAIN firstGroup :
        CompareCells(PreviousKey(firstGroup, keys, i)[k], keys[i + 1][k]) # 0}
SetRanges(firstGroup, keys) ==
    {i \in 0..Len(keys) - 1 : \E k \in DOMAIN firstGroup :
        CompareCells(PreviousKey(firstGroup, keys, i)[k], keys[i + 1][k]) = 1}
================================================================================
