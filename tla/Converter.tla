------------------------------- MODULE Converter -------------------------------
(***************************************************************************)
(* The parquet converter of pqarrow: the row groups one consumer of a scan  *)
(* receives are appended to one record, whose schema grows with them, and a *)
(* distinct query without a filter reads dictionaries and column indexes    *)
(* instead of rows where they determine the distinct rows.                  *)
(*                                                                          *)
(* The scan options are [physical, filter, distinct]; a row group has its   *)
(* parquet columns and rows.  The state of a converter is the record built  *)
(* so far; no column means that no record builder exists yet.               *)
(***************************************************************************)
EXTENDS Records

NoFilter == [op |-> "none"]
Computed(e) == e.expr = "gt"
ColumnsUsed(e) ==
    CASE e.expr = "gt"                   -> <<Col(e.col)>>
      [] e.expr \in {"alias", "average"} -> <<Col(e.of)>>
      [] OTHER                           -> <<e>>

ArrowSchema(cols, opts) ==
    IF Len(opts.distinct) = 1 /\ opts.filter = NoFilter
    THEN SelectSeq(cols, LAMBDA c : Included(opts.distinct, c))
    ELSE SelectSeq(cols, LAMBDA c : Included(opts.physical, c))
         \o LET computed == SelectSeq(opts.distinct, Computed)
            IN [k \in DOMAIN computed |-> computed[k].name]

\* NewParquetConverter: the mode that reads distinct values only.
MultiDistinct(opts) ==
    /\ opts.filter = NoFilter
    /\ opts.distinct # <<>>
    /\ \A k \in DOMAIN opts.distinct : opts.distinct[k].expr # "dynamic"

NewConverter == [cols |-> <<>>, rows |-> <<>>]

\* A row of columns from, laid out in columns to: what is missing is null.
Fit(row, from, to) == [k \in DOMAIN to |-> Cell(from, row, to[k])]
FitRows(rows, from, to) == [i \in DOMAIN rows |-> Fit(rows[i], from, to)]

MergeSchemas(cols, more) == SortNames(ToSet(cols) \cup ToSet(more))
OutputSchema(conv, schema) ==
    IF conv.cols = <<>> \/ conv.cols = schema THEN schema ELSE MergeSchemas(conv.cols, schema)

(***************************************************************************)
(* writeDistinctAllColumns.  Written(e, rg) are the values a distinct       *)
(* expression writes from the row group; NotOptimized stands for none.      *)
(***************************************************************************)
NotOptimized == <<Null - 1>>

\* writeColumnToArray with dictionaryOnly set.
SingleValued(pages) ==
    /\ NullCount(pages) = 0
    /\ \A p \in DOMAIN pages : MinValue(pages[p]) = MaxValue(pages[p])
                               /\ MinValue(pages[p]) = MinValue(pages[1])
Dictionary(pages) == SetToSortSeq(ToSet(FlattenSeq(pages)) \ {Null}, LAMBDA v, w : v < w)
PageValues(pages, p, isInt) ==
    IF Null \in ToSet(pages[p]) \/ isInt THEN pages[p] ELSE Dictionary(pages)
WriteColumn(pages, isInt) ==
    IF SingleValued(pages) THEN <<MinValue(pages[1])>>
    ELSE FlattenSeq([p \in DOMAIN pages |-> PageValues(pages, p, isInt)])

\* binaryDistinctExpr with allOrNoneGreaterThan.
AllGreater(pages, lit) == \A p \in DOMAIN pages : CompareValues(MaxValue(pages[p]), lit) > 0
NoneGreater(pages, lit) == \A p \in DOMAIN pages : CompareValues(MinValue(pages[p]), lit) <= 0
WriteGreater(pages, lit) ==
    IF ~AllGreater(pages, lit) /\ ~NoneGreater(pages, lit) THEN NotOptimized
    ELSE (IF AllGreater(pages, lit) THEN <<1>> ELSE <<>>)
         \o (IF NoneGreater(pages, lit) THEN <<0>> ELSE <<>>)

WriteExpr(e, rg, c) ==
    IF ~HasField(rg.cols, c) THEN <<>>
    ELSE CASE e.expr = "column" -> WriteColumn(Pages(rg, c), IsInt64(c))
           [] e.expr = "gt"     -> WriteGreater(Pages(rg, c), e.lit)
           [] OTHER             -> NotOptimized
Written(e, rg) == WriteExpr(e, rg, ColumnsUsed(e)[1].name)

\* The values written to the column c of the output.
WrittenTo(c, distinct, rg) ==
    FlattenSeq([k \in DOMAIN distinct |->
        IF distinct[k].name = c THEN Written(distinct[k], rg) ELSE <<>>])
Longer(distinct, rg, cols) == {i \in DOMAIN cols : Len(WrittenTo(cols[i], distinct, rg)) > 1}
Optimizes(distinct, rg, cols) ==
    /\ \A k \in DOMAIN distinct : Written(distinct[k], rg) # NotOptimized
    /\ Cardinality(Longer(distinct, rg, cols)) <= 1

\* At most one column has several values: the others repeat theirs, or are null.
RepeatLast(vals) ==
    [j \in 1..Max({0} \cup {Len(vals[i]) : i \in DOMAIN vals}) |->
        [i \in DOMAIN vals |-> IF vals[i] = <<>> THEN Null ELSE vals[i][Min({j, Len(vals[i])})]]]
DistinctRows(distinct, rg, cols) == RepeatLast([i \in DOMAIN cols |-> WrittenTo(cols[i], distinct, rg)])

\* Convert: a row group without a relevant column is ignored.
Converted(rg, opts, cols) ==
    IF MultiDistinct(opts) /\ Optimizes(opts.distinct, rg, cols) THEN DistinctRows(opts.distinct, rg, cols)
    ELSE FitRows(rg.rows, rg.cols, cols)
AppendTo(conv, rg, opts, cols) ==
    [cols |-> cols, rows |-> FitRows(conv.rows, conv.cols, cols) \o Converted(rg, opts, cols)]
ConvertTo(conv, rg, opts, schema) ==
    IF schema = <<>> THEN conv ELSE AppendTo(conv, rg, opts, OutputSchema(conv, schema))
Convert(conv, rg, opts) == ConvertTo(conv, rg, opts, ArrowSchema(rg.cols, opts))

\* Reset drops the rows of the builder and keeps its schema.
Reset(conv) == [conv EXCEPT !.rows = <<>>]
================================================================================
