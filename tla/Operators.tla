------------------------------- MODULE Operators -------------------------------
(***************************************************************************)
(* The operators of a physical plan as transformers of their state: what    *)
(* Callback does with a record, what Finish emits, and a chain of operators *)
(* that push records to each other.                                         *)
(*                                                                          *)
(* A step of an operator gives its new state, the records it passes on and  *)
(* whether it failed.  The aggregated column is an int64 without nulls.     *)
(***************************************************************************)
EXTENDS Converter

CONSTANT MaxGroups   \* groups that fit in the builders of one hash aggregate

Step(st, out) == [st |-> st, out |-> out, err |-> FALSE]
Failed(st) == [st |-> st, out |-> <<>>, err |-> TRUE]

Sum(s) == FoldLeft(LAMBDA a, b : a + b, 0, s)
\* mutant: the final stage counts the groups it receives.
RunAggregationAgain(final, fn, vals) ==
    CASE fn = "sum" -> Sum(vals) [] fn = "count" -> Len(vals) [] fn = "min" -> Min(ToSet(vals)) [] fn = "max" -> Max(ToSet(vals))
\* runAggregation: the final stage sums the counts of the stages before it.
RunAggregation(final, fn, vals) ==
    CASE fn = "sum"   -> Sum(vals)
      [] fn = "count" -> IF final THEN Sum(vals) ELSE Len(vals)
      [] fn = "min"   -> Min(ToSet(vals))
      [] fn = "max"   -> Max(ToSet(vals))

(***************************************************************************)
(* Hashes of rows.  The hash of a string is not zero and different strings  *)
(* have different hashes; an int64 is its own hash, and null hashes to 0.   *)
(* A combined hash is the sequence of what was combined, in that order.     *)
(***************************************************************************)
HashValue(c, v) == IF v = Null \/ (IsInt64(c) /\ v = 0) THEN <<>> ELSE <<v>>
CombineHashes(cols, I, hashes) ==
    FlattenSeq([k \in DOMAIN I |->
        IF hashes[k] = <<>> THEN <<>> ELSE << <<cols[I[k]], hashes[k]>> >>])

(***************************************************************************)
(* Distinct: the rows of the matched columns whose hash was not seen.       *)
(***************************************************************************)
DistinctHash(cols, I, row) ==
    CombineHashes(cols, I, [k \in DOMAIN I |-> HashValue(cols[I[k]], row[I[k]])])
NewRows(seen, hashes) ==
    SelectSeq(Numbers(hashes), LAMBDA j : hashes[j] \notin seen \cup {hashes[m] : m \in 1..j - 1})
Picked(r, new) == IF new = <<>> THEN <<>> ELSE <<[r EXCEPT !.rows = [m \in DOMAIN new |-> @[new[m]]]]>>
DistinctRecord(seen, r, hashes) == Step(seen \cup ToSet(hashes), Picked(r, NewRows(seen, hashes)))
DistinctColumns(seen, r, I) ==
    DistinctRecord(seen, Select(r, I), [j \in DOMAIN r.rows |-> DistinctHash(r.cols, I, r.rows[j])])
DistinctCallback(op, seen, r) == DistinctColumns(seen, r, Matching(r.cols, op.exprs))

(***************************************************************************)
(* HashAggregate.  Its state is the list of the hash aggregates it had to   *)
(* split into; each has its group columns in the order they were first met  *)
(* and, for every group, the hash, the key and the values collected for     *)
(* each aggregation.  expects is the number of aggregations whose columns   *)
(* every record must have.                                                  *)
(***************************************************************************)
NewAggregate(n) == [cols |-> <<>>, groups |-> <<>>, expects |-> n]
AggregatedName(op, agg) == IF op.final THEN agg.name ELSE agg.col

GroupHashes(r, I, row) ==
    [k \in DOMAIN I |-> LET h == FieldIndices(r.cols, HashedColumnName(r.cols[I[k]]))
                        IN IF h # <<>> THEN row[h[1]] ELSE HashValue(r.cols[I[k]], row[I[k]])]
GroupHash(r, I, row) == CombineHashes(r.cols, I, GroupHashes(r, I, row))

NewColumns(cols, more) == FoldLeft(LAMBDA known, c : IF HasField(known, c) THEN known ELSE Append(known, c), cols, more)

\* A row of a known group adds its values to it; a new group goes to the last aggregate,
\* or to a new one when the builders of the last are full.
AddToGroup(aggregates, hash, vals) ==
    [i \in DOMAIN aggregates |-> [aggregates[i] EXCEPT !.groups = [g \in DOMAIN @ |->
        IF @[g].hash = hash THEN [@[g] EXCEPT !.vals = [k \in DOMAIN vals |-> Append(@[k], vals[k])]]
        ELSE @[g]]]]
Known(aggregates, hash) ==
    \E i \in DOMAIN aggregates : \E g \in DOMAIN aggregates[i].groups : aggregates[i].groups[g].hash = hash
AddGroup(aggregates, names, group) ==
    LET n     == Len(aggregates)
        full  == names # <<>> /\ Len(aggregates[n].groups) >= MaxGroups
        split == IF full THEN Append(aggregates, NewAggregate(0)) ELSE aggregates
    IN [split EXCEPT ![Len(split)].cols = NewColumns(@, names), ![Len(split)].groups = Append(@, group)]

AddRow(aggregates, hash, names, key, vals) ==
    IF Known(aggregates, hash) THEN AddToGroup(aggregates, hash, vals)
    ELSE AddGroup(aggregates, names, [hash |-> hash, names |-> names, key |-> key,
                                      vals |-> [k \in DOMAIN vals |-> <<vals[k]>>]])
\* I and A are the fields of the group and of the aggregated columns.
HashRow(r, I, A, aggregates, row) ==
    AddRow(aggregates, GroupHash(r, I, row), [k \in DOMAIN I |-> r.cols[I[k]]],
           [k \in DOMAIN I |-> row[I[k]]], [k \in DOMAIN A |-> row[A[k]]])
HashRows(aggregates, r, I, A) ==
    Step(FoldLeft(LAMBDA st, row : HashRow(r, I, A, st, row), aggregates, r.rows), <<>>)

HashCallback(op, aggregates, r) ==
    LET found == SelectSeq(op.aggs, LAMBDA agg : HasField(r.cols, AggregatedName(op, agg)))
    IN IF Len(found) # aggregates[Len(aggregates)].expects THEN Failed(aggregates)
       ELSE HashRows(aggregates, r, Matching(r.cols, op.group),
                     [k \in DOMAIN op.aggs |-> FieldIndices(r.cols, AggregatedName(op, op.aggs[k]))[1]])

\* finishAggregate: keys back-filled with null; all but the final stage pass on, for
\* every group column, the hash of the group.
GroupFields(op, aggregate) ==
    LET cols == SelectSeq(aggregate.cols, LAMBDA c : ~(op.final /\ IsHashedColumn(c)))
    IN IF op.final THEN cols
       ELSE FlattenSeq([k \in DOMAIN cols |-> <<cols[k], HashedColumnName(cols[k])>>])
GroupRow(op, fields, g) ==
    [k \in DOMAIN fields |-> IF IsHashedColumn(fields[k]) THEN g.hash ELSE Cell(g.names, g.key, fields[k])]
    \o [k \in DOMAIN op.aggs |-> RunAggregation(op.final, op.aggs[k].fn, g.vals[k])]
GroupRecord(op, fields, groups) ==
    [cols |-> fields \o [k \in DOMAIN op.aggs |-> op.aggs[k].name],
     rows |-> [i \in DOMAIN groups |-> GroupRow(op, fields, groups[i])]]
HashFinish(op, aggregates) ==
    LET full == SelectSeq(aggregates, LAMBDA a : a.groups # <<>>)
    IN [i \in DOMAIN full |-> GroupRecord(op, GroupFields(op, full[i]), full[i].groups)]

(***************************************************************************)
(* OrderedAggregate.  Its state has the group columns met so far, the key   *)
(* of the last row (the group that is still open) with the values carried   *)
(* for it, the closed groups of the current ordered set, and the ordered    *)
(* sets before it.  Keys are shorter than cols when columns came later.     *)
(***************************************************************************)
NewOrdered == [started |-> FALSE, cols |-> <<>>, cur |-> <<>>, carry |-> <<>>, open |-> <<>>, sets |-> <<>>]
Pad(key, n) == [k \in 1..n |-> IF k <= Len(key) THEN key[k] ELSE Null]
Group(op, key, vals) == [key |-> key, val |-> RunAggregation(op.final, op.aggs[1].fn, vals)]
Ascending(S) == SetToSortSeq(S, LAMBDA i, j : i < j)

\* One turn of the loop over the group ends: end = 0 closes the group carried over from
\* the record before.
CloseGroup(op, keys, vals, first, sets, acc, end) ==
    LET key  == IF end = 0 THEN first ELSE keys[acc.start + 1]
        open == Append(acc.open, Group(op, key, acc.carry \o SubSeq(vals, acc.start + 1, end)))
    IN [start |-> end, carry |-> <<>>,
        open  |-> IF end \in sets THEN <<>> ELSE open,
        sets  |-> IF end \in sets THEN Append(acc.sets, open) ELSE acc.sets]

CloseGroups(op, st, keys, vals, first) ==
    FoldLeft(LAMBDA acc, end : CloseGroup(op, keys, vals, first, SetRanges(first, keys), acc, end),
             [start |-> 0, carry |-> st.carry, open |-> st.open, sets |-> st.sets],
             Ascending(GroupRanges(first, keys)))
CarryOn(cols, keys, vals, acc) ==
    [started |-> TRUE, cols |-> cols, cur |-> Last(keys), open |-> acc.open, sets |-> acc.sets,
     carry |-> acc.carry \o SubSeq(vals, acc.start + 1, Len(vals))]
OrderedKeys(op, st, cols, keys, vals) ==
    CarryOn(cols, keys, vals, CloseGroups(op, st, keys, vals,
                IF st.started THEN Pad(st.cur, Len(cols)) ELSE keys[1]))
OrderedRows(op, st, r, cols) ==
    OrderedKeys(op, st, cols, FitRows(r.rows, r.cols, cols),
                [i \in DOMAIN r.rows |-> Cell(r.cols, r.rows[i], op.aggs[1].col)])
\* A record without rows has no first group: the panic is recovered as an error.
OrderedCallback(op, st, r) ==
    IF r.rows = <<>> \/ ~HasField(r.cols, op.aggs[1].col) THEN Failed(st)
    ELSE Step(OrderedRows(op, st, r, NewColumns(st.cols, Select(r, Matching(r.cols, op.group)).cols)), <<>>)

\* Finish: several ordered sets are merged and the groups that meet aggregated again.
SetRecord(op, cols, set) ==
    [cols |-> Append(cols, IF op.final THEN op.aggs[1].name ELSE op.aggs[1].col),
     rows |-> [i \in DOMAIN set |-> Append(Pad(set[i].key, Len(cols)), set[i].val)]]
Regrouped(fn, rows, n) ==
    Append(SubSeq(rows[1], 1, n), RunAggregation(TRUE, fn, [i \in DOMAIN rows |-> rows[i][n + 1]]))
Regroup(fn, rows, n, ends) ==
    [k \in DOMAIN ends |-> Regrouped(fn, SubSeq(rows, IF k = 1 THEN 1 ELSE ends[k - 1] + 1, ends[k]), n)]
GroupEnds(keys) == Ascending(GroupRanges(keys[1], keys) \cup {Len(keys)})
MergeSets(fn, merged, n) ==
    [merged EXCEPT !.rows = Regroup(fn, @, n, GroupEnds([i \in DOMAIN @ |-> SubSeq(@[i], 1, n)]))]
OrderedSets(op, st, sets) ==
    LET recs == [i \in DOMAIN sets |-> SetRecord(op, st.cols, sets[i])]
    IN IF Len(sets) = 1 THEN recs
       ELSE <<MergeSets(op.aggs[1].fn, MergeRecords(recs, Numbers(st.cols)), Len(st.cols))>>
OrderedFinish(op, st) ==
    IF ~st.started THEN <<>>
    ELSE OrderedSets(op, st, Append(st.sets, Append(st.open, Group(op, st.cur, st.carry))))

(***************************************************************************)
(* A chain of operators.                                                    *)
(***************************************************************************)
NewState(op) ==
    CASE op.op = "distinct" -> {}
      [] op.op = "hash"     -> <<NewAggregate(Len(op.aggs))>>
      [] op.op = "ordered"  -> NewOrdered
      [] OTHER              -> Null
NewStates(ops) == [k \in DOMAIN ops |-> NewState(ops[k])]

FilterCallback(op, st, r) ==
    LET f == FilterRecord(op.expr, r)
    IN Step(st, IF f.rows = <<>> THEN <<>> ELSE <<f>>)
ProjectCallback(op, st, r) ==
    IF ProjectFails(op.exprs, r) THEN Failed(st) ELSE Step(st, <<ProjectRecord(op.exprs, r)>>)

\* The operator a value of the interface PhysicalPlan holds.
Callback(op, st, r) ==
    CASE op.op = "filter"   -> FilterCallback(op, st, r)
      [] op.op = "project"  -> ProjectCallback(op, st, r)
      [] op.op = "distinct" -> DistinctCallback(op, st, r)
      [] op.op = "hash"     -> HashCallback(op, st, r)
      [] op.op = "ordered"  -> OrderedCallback(op, st, r)
Finish(op, st) ==
    CASE op.op = "hash"    -> HashFinish(op, st)
      [] op.op = "ordered" -> OrderedFinish(op, st)
      [] OTHER             -> <<>>

\* Every Callback ends in next.Callback for each record it has made, and every Finish in
\* next.Finish.  No operator depends on the state of another, so the records of a whole
\* stage are passed on before the next stage is looked at.
Joined(s, t) == [st |-> t.st, out |-> s.out \o t.out, err |-> t.err]
Feed(op, s, r) == IF s.err THEN s ELSE Joined(s, Callback(op, s.st, r))
Stage(op, st, recs) == FoldLeft(LAMBDA s, r : Feed(op, s, r), Step(st, <<>>), recs)
FinishStage(op, s) == IF s.err THEN s ELSE [s EXCEPT !.out = @ \o Finish(op, s.st)]
NextStage(chain, s) == [st |-> Append(chain.st, s.st), out |-> s.out, err |-> chain.err \/ s.err]

PushAll(ops, sts, recs) ==
    FoldLeft(LAMBDA chain, k : NextStage(chain, Stage(ops[k], sts[k], chain.out)), Step(<<>>, recs), Numbers(ops))
\* Finish of an operator pushes what it holds and then finishes the next one.
FinishAll(ops, sts) ==
    FoldLeft(LAMBDA chain, k : NextStage(chain, FinishStage(ops[k], Stage(ops[k], sts[k], chain.out))),
             Step(<<>>, <<>>), Numbers(ops))
================================================================================
