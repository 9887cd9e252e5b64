-------------------------------- MODULE MCQuery --------------------------------
(***************************************************************************)
(* Instances of Query.  The schema has a string column a, a dynamic column  *)
(* of labels l and an integer v, and is sorted by a and the labels.         *)
(***************************************************************************)
EXTENDS Query

a == <<1>>
l == 2
v == <<5>>
MCSchemaColumns == {1, 2, 5}
MCIntColumns == {5}
MCSortingColumns == << [name |-> a, dynamic |-> FALSE], [name |-> <<l>>, dynamic |-> TRUE] >>
label(x) == <<l, x>>

SumV == [fn |-> "sum", col |-> v, name |-> <<7>> \o v]
CountV == [fn |-> "count", col |-> v, name |-> <<8>> \o v]
MinV == [fn |-> "min", col |-> v, name |-> <<9>> \o v]
MaxV == [fn |-> "max", col |-> v, name |-> <<10>> \o v]
AvgV == [fn |-> "avg", col |-> v, name |-> <<11>> \o v]
Leaf(c, op, lit) == [col |-> c, op |-> op, lit |-> lit]
Both(e, f) == [op |-> "and", left |-> e, right |-> f]
Either(e, f) == [op |-> "or", left |-> e, right |-> f]

Ask(nodes, ordered, cancel) == [plan |-> Scan(nodes), ordered |-> ordered, cancel |-> cancel]

\* Groups by the sorting columns, aggregated in order; covered by an equality filter in one.
OrderedQueries ==
    { Ask(<<AggregateNode(<<SumV>>, <<Col(a), DynCol(l)>>)>>, TRUE, FALSE),
      Ask(<<AggregateNode(<<CountV>>, <<Col(a)>>)>>, TRUE, TRUE),
      Ask(<<FilterNode(Leaf(a, "==", 1)), AggregateNode(<<MaxV>>, <<DynCol(l)>>)>>, TRUE, FALSE) }
\* Aggregations by hash, filters, projections and distinct.
HashQueries ==
    { Ask(<<AggregateNode(<<SumV, CountV, MinV>>, <<Col(a)>>)>>, FALSE, FALSE),
      Ask(<<FilterNode(Either(Leaf(v, ">", 3), Leaf(v, "<=", 1))), AggregateNode(<<AvgV>>, <<Col(a)>>)>>, FALSE, FALSE),
      Ask(<<DistinctNode(<<Col(a)>>)>>, FALSE, FALSE),
      Ask(<<DistinctNode(<<Col(a), Gt(v, 2, <<12>>)>>)>>, FALSE, FALSE),
      Ask(<<FilterNode(Both(Leaf(a, "=~", {1, 2}), Leaf(v, ">=", 2))), DistinctNode(<<Col(a)>>)>>, FALSE, TRUE),
      Ask(<<FilterNode(Leaf(v, "<", 3)), ProjectNode(<<Col(a), Col(v)>>)>>, FALSE, TRUE) }
\* Filters on a column that not every part has: by equality, by null, and two of which the
\* result goes by whether the record has the column.
LabelQueries ==
    { Ask(<<FilterNode(Leaf(label(1), "==", 1)), ProjectNode(<<Col(a), Col(v)>>)>>, FALSE, FALSE),
      Ask(<<FilterNode(Leaf(label(1), "==", Null)), AggregateNode(<<CountV>>, <<Col(a)>>)>>, FALSE, FALSE),
      Ask(<<FilterNode(Either(Leaf(label(1), "!=", 1), Leaf(v, ">", 3))), ProjectNode(<<Col(a), Col(v)>>)>>, FALSE, FALSE),
      Ask(<<FilterNode(Leaf(label(2), "!~", {1})), DistinctNode(<<Col(a)>>)>>, FALSE, FALSE),
      Ask(<<AggregateNode(<<SumV>>, <<DynCol(l), Col(a)>>)>>, FALSE, FALSE) }

Record(cols, rows) == [kind |-> "record", cols |-> cols, rows |-> rows]
RowGroup(cols, rows) == [kind |-> "parquet", cols |-> cols, rows |-> rows]

\* Records and row groups with different labels.
LabelTables ==
    { << Record(<<a, label(1), v>>, << <<1, 1, 2>>, <<2, 1, 3>> >>),
         Record(<<a, label(2), v>>, << <<1, 1, 1>>, <<1, 2, 4>> >>),
         RowGroup(<<a, label(1), label(2), v>>, << <<1, Null, 1, 3>>, <<1, 1, Null, 5>>, <<2, 1, Null, 1>> >>) >>,
      << Record(<<a, label(2), v>>, << <<1, 1, 1>> >>),
         Record(<<a, label(1), label(2), v>>, << <<1, Null, 1, 2>>, <<1, 1, Null, 3>> >>) >> }
\* The same columns everywhere.
FlatTables ==
    { << Record(<<a, v>>, << <<1, 2>>, <<2, 3>> >>),
         RowGroup(<<a, v>>, << <<1, 1>>, <<1, 4>>, <<2, 5>> >>),
         RowGroup(<<a, v>>, << <<2, 3>>, <<2, 4>> >>) >>,
      << RowGroup(<<a, v>>, << <<Null, 4>>, <<1, 1>> >>),
         RowGroup(<<a, v>>, << <<1, 2>>, <<3, 3>> >>) >> }

\* Parts that overlap: one that contains another, and one that ends inside another.
OverlapTables ==
    { << Record(<<a, v>>, << <<2, 1>>, <<4, 4>> >>),
         Record(<<a, v>>, << <<2, 3>> >>),
         Record(<<a, v>>, << <<1, 1>>, <<3, 2>> >>) >>,
      << RowGroup(<<a, v>>, << <<2, 3>>, <<4, 1>> >>),
         Record(<<a, v>>, << <<1, 2>>, <<3, 5>> >>) >> }

\* The labels met first by one input are met last by the other.
GroupTables ==
    { << Record(<<a, label(1), v>>, << <<1, 1, 2>> >>),
         Record(<<a, label(1), label(2), v>>, << <<1, Null, 1, 3>>, <<1, 1, Null, 4>> >>),
         Record(<<a, label(2), v>>, << <<1, 1, 1>> >>) >> }
Cancelled == {Ask(<<AggregateNode(<<CountV>>, <<Col(a)>>)>>, TRUE, TRUE)}

\* The comparison holds of one row of the first page and of none of the second.
PagesTables == {<< RowGroup(<<a, v>>, << <<1, 1>>, <<1, 4>>, <<1, 2>> >>) >>}
Comparisons == {Ask(<<DistinctNode(<<Col(a), Gt(v, 2, <<12>>)>>)>>, FALSE, FALSE)}

MCQueries == OrderedQueries \cup HashQueries \cup LabelQueries
MCTables == FlatTables \cup LabelTables \cup OverlapTables \cup GroupTables
================================================================================
