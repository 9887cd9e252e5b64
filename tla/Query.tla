--------------------------------- MODULE Query ---------------------------------
(***************************************************************************)
(* The execution of a query: Table.Iterator hands row groups to concurrent  *)
(* inputs, every input runs its own operators, a Synchronizer or an         *)
(* OrderedSynchronizer joins the inputs, and the operators after it push    *)
(* records to the caller.  TableScan.Execute runs the iterator first and    *)
(* then, concurrently, Finish of every input.                               *)
(***************************************************************************)
EXTENDS Plans, Compaction

CONSTANTS Inputs,        \* the concurrent inputs of a plan
          Queries,       \* [plan, ordered, cancel]: a plan, whether ordered aggregations
                         \* are enabled and whether the caller may cancel
          SchemaColumns, \* the roots of the columns of the table's schema
          Tables,        \* a table is the sequence of its parts, the newest first
          BufferSize,    \* rows at which a converter is flushed
          ChannelSize,   \* row groups the channel of the iterator holds
          MaxFailures    \* calls of the caller's callback that fail

VARIABLES query, phys,  \* the query and its physical plan
          parts, fresh, \* the parts of the table, and how many are not compacted yet
          table,       \* the records and row groups that the query scans
          phase,       \* "scan", "finish" or the result "ok" / "error" of Execute
          next,        \* the row group the collector sends next
          chan, closed,    \* the channel of row groups
          ctx,         \* the errgroup's context: done?
          cancelled,   \* the caller's context: done?
          inputs,      \* per input: where it is, converter, operator states, records to push
          sync,        \* the synchronizer: inputs running and waiting, data, mutex holder
          post,        \* operator states after the synchronizer
          output,      \* records passed to the caller
          failures

constants == <<query, phys, parts, fresh, table>>
scan == <<next, chan, closed, ctx>>
vars == <<constants, scan, phase, cancelled, inputs, sync, post, output, failures>>

None == "none"
\* The older parts of the index may have been compacted to one.
Scanned(ps, k) ==
    SubSeq(ps, 1, k) \o (IF k = Len(ps) THEN <<>> ELSE parquetCompaction(SubSeq(ps, k + 1, Len(ps))))

NewInput(p) == [pc |-> "scan", conv |-> NewConverter, ops |-> NewStates(p.pre), emit |-> <<>>]

Init ==
    /\ query \in {q \in Queries : Validate(q.plan, SchemaColumns) /\ OneAverage(q.plan)}
    /\ parts \in Tables
    /\ fresh \in 0..Len(parts)
    /\ table = Scanned(parts, fresh)
    /\ phys = Build(Optimize(query.plan), query.ordered)
    /\ phase = "scan" /\ next = 1 /\ chan = <<>> /\ closed = FALSE
    /\ ctx = FALSE /\ cancelled = FALSE
    /\ inputs = [i \in Inputs |-> NewInput(phys)]
    /\ sync = [running |-> Cardinality(Inputs), waiting |-> 0, data |-> <<>>, mtx |-> None, wake |-> 0]
    /\ post = NewStates(phys.post)
    /\ output = <<>> /\ failures = 0

Goes(i, pc) == [inputs EXCEPT ![i].pc = pc]
ContextDone == ctx \/ cancelled

(***************************************************************************)
(* The collector: row groups the pushed down filter rules out are skipped.  *)
(***************************************************************************)
Relevant(rg) == rg.kind = "record" \/ phys.scan.filter = NoFilter \/ MayMatch(phys.scan.filter, rg)
CollectRowGroup ==
    /\ phase = "scan" /\ ~closed /\ next <= Len(table) /\ Len(chan) < ChannelSize
    /\ chan' = IF Relevant(table[next]) THEN Append(chan, table[next]) ELSE chan
    /\ next' = next + 1
    /\ UNCHANGED <<constants, phase, closed, ctx, cancelled, inputs, sync, post, output, failures>>
CloseRowGroups ==
    /\ phase = "scan" /\ ~closed /\ next = Len(table) + 1
    /\ closed' = TRUE
    /\ UNCHANGED <<constants, phase, next, chan, ctx, cancelled, inputs, sync, post, output, failures>>
StopCollecting ==
    /\ phase = "scan" /\ ContextDone /\ next <= Len(table)
    /\ next' = Len(table) + 2
    /\ ctx' = TRUE
    /\ UNCHANGED <<constants, phase, chan, closed, cancelled, inputs, sync, post, output, failures>>

(***************************************************************************)
(* Passing records to the caller, whose callback may fail, and through the  *)
(* operators after the synchronizer.  Deliver(s) is a step of those.        *)
(***************************************************************************)
Delivered(s, failed) ==
    /\ post' = s.st
    /\ failed = s.err
    /\ output' = output \o s.out
    /\ UNCHANGED failures
CallbackFails(s, failed) ==
    /\ ~s.err /\ s.out # <<>> /\ failures < MaxFailures
    /\ failed
    /\ failures' = failures + 1
    /\ post' = s.st
    /\ UNCHANGED output
Deliver(s, failed) == Delivered(s, failed) \/ CallbackFails(s, failed)

(***************************************************************************)
(* The goroutines of Table.Iterator.                                        *)
(***************************************************************************)
\* What an input does with the next record or row group, and with the rest at the end:
\* its converter and the records its operators are called with.
Flush(conv) == IF Len(conv.rows) >= BufferSize THEN [conv |-> Reset(conv), recs |-> <<conv>>]
               ELSE [conv |-> conv, recs |-> <<>>]
Received(i, rg) ==
    IF rg.kind = "parquet" THEN Flush(Convert(inputs[i].conv, rg, phys.scan))
    ELSE [conv |-> inputs[i].conv,
          recs |-> <<PhysicalProject(phys.scan.physical, [cols |-> rg.cols, rows |-> rg.rows])>>]
Rest(i) ==
    [conv |-> NewConverter, recs |-> IF inputs[i].conv.rows = <<>> THEN <<>> ELSE <<inputs[i].conv>>]

\* The operators of the input and, under the mutex of the Synchronizer, those after it.
Run(i, received, then) ==
    \E own \in {PushAll(phys.pre, inputs[i].ops, received.recs)}, failed \in BOOLEAN :
         /\ Deliver(IF own.err THEN Failed(post) ELSE PushAll(phys.post, post, own.out), failed)
         /\ ctx' = (ctx \/ failed)
         /\ inputs' = [inputs EXCEPT ![i].pc = IF failed THEN "failed" ELSE then,
                                     ![i].conv = received.conv, ![i].ops = own.st]

Receive(i) ==
    /\ phase = "scan" /\ inputs[i].pc = "scan" /\ chan # <<>>
    /\ Run(i, Received(i, Head(chan)), "scan")
    /\ chan' = Tail(chan)
    /\ UNCHANGED <<constants, phase, next, closed, cancelled, sync>>
Drained(i) ==
    /\ phase = "scan" /\ inputs[i].pc = "scan" /\ closed /\ chan = <<>>
    /\ Run(i, Rest(i), "drained")
    /\ UNCHANGED <<constants, phase, next, chan, closed, cancelled, sync>>
Abort(i) ==
    /\ phase = "scan" /\ inputs[i].pc = "scan" /\ ContextDone
    /\ inputs' = Goes(i, "failed")
    /\ ctx' = TRUE
    /\ UNCHANGED <<constants, phase, next, chan, closed, cancelled, sync, post, output, failures>>

\* errg.Wait of the iterator: an error of a goroutine ends the query, and otherwise
\* Finish is called on every input.
IteratorReturns ==
    LET failed == next = Len(table) + 2 \/ \E i \in Inputs : inputs[i].pc = "failed"
    IN /\ phase = "scan"
       /\ closed \/ next = Len(table) + 2
       /\ \A i \in Inputs : inputs[i].pc \in {"drained", "failed"}
       /\ phase' = IF failed THEN "error" ELSE "finish"
       /\ inputs' = IF failed THEN inputs ELSE [i \in Inputs |-> [inputs[i] EXCEPT !.pc = "finish"]]
       /\ UNCHANGED <<constants, scan, cancelled, sync, post, output, failures>>

(***************************************************************************)
(* Finish of the inputs.  An input finishes its own operators, pushes what  *)
(* they emit to the synchronizer and then finishes the synchronizer.  An    *)
(* error ends the input; the others go on, with the caller's context.       *)
(***************************************************************************)
FinishOperators(i) ==
    /\ phase = "finish" /\ inputs[i].pc = "finish"
    /\ \E own \in {FinishAll(phys.pre, inputs[i].ops)} :
         inputs' = [inputs EXCEPT ![i].pc = IF own.err THEN "failed" ELSE "push",
                                  ![i].emit = own.out, ![i].ops = <<>>]
    /\ UNCHANGED <<constants, scan, phase, cancelled, sync, post, output, failures>>

\* Synchronizer.Callback and Synchronizer.Finish.
PlainCallback(i) ==
    /\ phase = "finish" /\ phys.sync = "plain"
    /\ inputs[i].pc = "push" /\ inputs[i].emit # <<>>
    /\ \E failed \in BOOLEAN :
         /\ Deliver(PushAll(phys.post, post, <<Head(inputs[i].emit)>>), failed)
         /\ inputs' = [inputs EXCEPT ![i].pc = IF failed THEN "failed" ELSE "push", ![i].emit = Tail(@)]
    /\ UNCHANGED <<constants, scan, phase, cancelled, sync>>
PlainFinish(i) ==
    /\ phase = "finish" /\ phys.sync = "plain"
    /\ inputs[i].pc = "push" /\ inputs[i].emit = <<>>
    /\ sync' = [sync EXCEPT !.running = @ - 1]
    /\ \E failed \in BOOLEAN :
         /\ Deliver(IF sync'.running > 0 THEN Step(post, <<>>) ELSE FinishAll(phys.post, post), failed)
         /\ inputs' = Goes(i, IF failed THEN "failed" ELSE "done")
    /\ UNCHANGED <<constants, scan, phase, cancelled>>

(***************************************************************************)
(* The OrderedSynchronizer.  sync.mtx is held while the inputs that wait    *)
(* are woken one by one over the unbuffered channel; sync.wake counts the   *)
(* messages still to be sent.                                               *)
(***************************************************************************)
Ordered(i, pc) ==
    /\ phase = "finish" /\ phys.sync = "ordered"
    /\ inputs[i].pc = pc
    /\ UNCHANGED <<constants, scan, phase, cancelled>>

\* The first critical section of Callback; the counters are compared after the unlock, as
\* they were then.
OrderedPush(i) ==
    /\ Ordered(i, "push") /\ inputs[i].emit # <<>> /\ sync.mtx = None
    /\ sync' = [sync EXCEPT !.data = Append(@, Head(inputs[i].emit)), !.waiting = @ + 1]
    /\ inputs' = [inputs EXCEPT ![i].pc = IF sync'.waiting = sync.running THEN "merge" ELSE "wait",
                                ![i].emit = Tail(@)]
    /\ UNCHANGED <<post, output, failures>>
WaitCancelled(i) ==
    /\ Ordered(i, "wait") /\ cancelled
    /\ inputs' = Goes(i, "failed")
    /\ UNCHANGED <<sync, post, output, failures>>

\* ensureSameSchema: the order-by columns first, those of a dynamic column sorted by name,
\* then every column that some order-by expression does not match (with several of them the
\* order-by columns come again), in no particular order; a missing column is null.
AllColumns(recs) == UNION {ToSet(recs[k].cols) : k \in DOMAIN recs}
OrderedColumns(recs) ==
    FlattenSeq([k \in DOMAIN phys.by |-> SortNames({c \in AllColumns(recs) : MatchColumn(phys.by[k], c)})])
LeftoverColumns(recs) == {c \in AllColumns(recs) : \E k \in DOMAIN phys.by : ~MatchColumn(phys.by[k], c)}
Relaid(recs, cols) == [k \in DOMAIN recs |-> [cols |-> cols, rows |-> FitRows(recs[k].rows, recs[k].cols, cols)]]
MergeBy(recs, by) ==
    MergeRecords(Relaid(recs, by \o SetToSeq(LeftoverColumns(recs))), Numbers(by))
Merged == MergeBy(sync.data, OrderedColumns(sync.data))

\* The input that found all the others waiting takes the mutex again and merges; records whose
\* columns are dictionaries and integers can always be merged.
StartMerge(i) ==
    /\ Ordered(i, "merge") /\ sync.mtx = None
    /\ sync' = [sync EXCEPT !.mtx = i, !.waiting = @ - 1, !.wake = sync.waiting - 1]
    /\ inputs' = Goes(i, "wake")
    /\ UNCHANGED <<post, output, failures>>
Wake(i, j, pc) ==
    /\ Ordered(i, pc) /\ inputs[j].pc = "wait" /\ sync.wake > 0
    /\ sync' = [sync EXCEPT !.wake = @ - 1]
    /\ inputs' = Goes(j, "push")
    /\ UNCHANGED <<post, output, failures>>
\* After the last message the merged record goes to the next operator, still under the mutex.
PushMerged(i, pc, then) ==
    /\ Ordered(i, pc) /\ sync.wake = 0
    /\ \E failed \in BOOLEAN :
         /\ Deliver(PushAll(phys.post, post, <<Merged>>), failed)
         /\ inputs' = Goes(i, IF failed THEN "failed" ELSE then)
    /\ sync' = [sync EXCEPT !.mtx = None, !.waiting = 0, !.data = <<>>]

\* Finish: an input that leaves while all the others wait merges for them, and the last
\* input to leave finishes the next operator.
FinishLast(i) ==
    /\ Ordered(i, "push") /\ inputs[i].emit = <<>> /\ sync.mtx = None /\ sync.running = 1
    /\ sync' = [sync EXCEPT !.running = 0]
    /\ \E failed \in BOOLEAN :
         /\ Deliver(FinishAll(phys.post, post), failed)
         /\ inputs' = Goes(i, IF failed THEN "failed" ELSE "done")
\* mutant: the comparison with the inputs that wait is off by one.
OthersWaitStrictly(running) == running < sync.waiting
OthersWait(running) == running = sync.waiting
FinishInput(i) ==
    LET running == sync.running - 1
        all     == OthersWait(running)
    IN /\ Ordered(i, "push") /\ inputs[i].emit = <<>> /\ sync.mtx = None /\ running > 0
       /\ sync' = [sync EXCEPT !.running = running,
                               !.mtx = IF all THEN i ELSE None, !.wake = IF all THEN sync.waiting ELSE 0]
       /\ inputs' = Goes(i, IF all THEN "wakeLast" ELSE "done")
       /\ UNCHANGED <<post, output, failures>>

(***************************************************************************)
(* The query as a whole.                                                    *)
(***************************************************************************)
Cancel ==
    /\ query.cancel /\ ~cancelled /\ phase \in {"scan", "finish"}
    /\ cancelled' = TRUE
    /\ UNCHANGED <<constants, scan, phase, inputs, sync, post, output, failures>>
ExecuteReturns ==
    /\ phase = "finish" /\ \A i \in Inputs : inputs[i].pc \in {"done", "failed"}
    /\ phase' = IF \A i \in Inputs : inputs[i].pc = "done" THEN "ok" ELSE "error"
    /\ UNCHANGED <<constants, scan, cancelled, inputs, sync, post, output, failures>>

Next ==
    \/ CollectRowGroup \/ CloseRowGroups \/ StopCollecting
    \/ \E i \in Inputs : Receive(i) \/ Drained(i) \/ Abort(i)
    \/ IteratorReturns
    \/ \E i \in Inputs : FinishOperators(i) \/ PlainCallback(i) \/ PlainFinish(i)
    \/ \E i \in Inputs : OrderedPush(i) \/ WaitCancelled(i) \/ StartMerge(i)
    \/ \E i, j \in Inputs : Wake(i, j, "wake") \/ Wake(i, j, "wakeLast")
    \/ \E i \in Inputs : PushMerged(i, "wake", "push") \/ PushMerged(i, "wakeLast", "done")
    \/ \E i \in Inputs : FinishLast(i) \/ FinishInput(i)
    \/ Cancel \/ ExecuteReturns

Spec == Init /\ [][Next]_vars

(***************************************************************************)
(* What a query means, on rows that are sets of <<column, value>> pairs: no *)
(* row groups, inputs, stages or pushed down nodes.                         *)
(***************************************************************************)
Pairs(cols, row) == {<<cols[k], row[k]>> : k \in {m \in DOMAIN cols : row[m] # Null}}
RowsOf(recs) == FlattenSeq([k \in DOMAIN recs |->
                    [j \in DOMAIN recs[k].rows |-> Pairs(recs[k].cols, recs[k].rows[j])]])

\* Whether a comparison holds of a row without the column.  The code goes by the record the row
\* is in: of a record that has the column the row is null and satisfies == null only, of one
\* that lacks it also what is not a comparison with null and what the empty string satisfies.
WithoutColumn(e, lacking) ==
    \/ e.op = "==" /\ e.lit = Null
    \/ lacking /\ CASE e.op = "==" -> e.lit = EmptyString
                    [] e.op = "!=" -> e.lit # Null
                    [] e.op = "=~" -> EmptyString \in e.lit
                    [] e.op = "!~" -> EmptyString \notin e.lit
                    [] OTHER       -> FALSE
RECURSIVE Satisfies(_, _, _)
Satisfies(row, e, lacking) ==
    CASE e.op = "and" -> Satisfies(row, e.left, lacking) /\ Satisfies(row, e.right, lacking)
      [] e.op = "or"  -> Satisfies(row, e.left, lacking) \/ Satisfies(row, e.right, lacking)
      [] OTHER -> IF \A p \in row : p[1] # e.col THEN WithoutColumn(e, lacking)
                  ELSE \E p \in row : p[1] = e.col /\
                     CASE e.op = "==" -> p[2] = e.lit
                       [] e.op = "!=" -> p[2] # e.lit
                       [] e.op = "<"  -> p[2] < e.lit
                       [] e.op = "<=" -> p[2] <= e.lit
                       [] e.op = ">"  -> p[2] > e.lit
                       [] e.op = ">=" -> p[2] >= e.lit
                       [] e.op = "=~" -> p[2] \in e.lit
                       [] e.op = "!~" -> p[2] \notin e.lit

Picks(row, e) ==
    IF e.expr = "gt"
    THEN {<<e.name, IF Satisfies(row, [op |-> ">", col |-> e.col, lit |-> e.lit], FALSE) THEN 1 ELSE 0>>}
    ELSE {p \in row : MatchColumn(e, p[1])}
Projected(row, exprs) == UNION {Picks(row, exprs[k]) : k \in DOMAIN exprs}

Values(rows, c) == FlattenSeq([k \in DOMAIN rows |-> LET hit == {p \in rows[k] : p[1] = c}
                                                     IN IF hit = {} THEN <<>> ELSE <<(CHOOSE p \in hit : TRUE)[2]>>])
Value(agg, rows) ==
    IF agg.fn = "avg" THEN Sum(Values(rows, agg.col)) \div Len(rows)
    ELSE RunAggregation(FALSE, agg.fn, Values(rows, agg.col))
Grouped(node, rows) ==
    LET key(row) == Projected(row, node.group)
        of(k)    == SelectSeq(rows, LAMBDA row : key(row) = k)
    IN SetToSeq({k \cup {<<node.aggs[a].name, Value(node.aggs[a], of(k))>> : a \in DOMAIN node.aggs} :
                    k \in {key(rows[i]) : i \in DOMAIN rows}})
Meaning(lacking, rows, node) ==
    CASE node.node = "filter"    -> SelectSeq(rows, LAMBDA row : Satisfies(row, node.expr, lacking))
      [] node.node = "project"   -> [k \in DOMAIN rows |-> Projected(rows[k], node.exprs)]
      [] node.node = "distinct"  -> SetToSeq({Projected(rows[k], node.exprs) : k \in DOMAIN rows})
      [] node.node = "aggregate" -> Grouped(node, rows)
Answer(lacking) ==
    FoldLeft(LAMBDA rows, node : Meaning(lacking, rows, node), RowsOf(parts), query.plan.nodes)

\* The rows with how often each occurs; rows without a value are not told apart from none.
Occurrences(rows) == [row \in ToSet(rows) \ {{}} |-> Cardinality({k \in DOMAIN rows : rows[k] = row})]
AtMost(rows, more) ==
    \A row \in DOMAIN Occurrences(rows) :
        row \in DOMAIN Occurrences(more) /\ Occurrences(rows)[row] <= Occurrences(more)[row]

(***************************************************************************)
(* Properties.                                                              *)
(***************************************************************************)
\* Compaction keeps every row of the parts once and sorts them, over all row groups of the
\* result and with the columns that only some parts have, however the parts overlap: what is
\* put one after the other really does not overlap (FindMaximumNonOverlappingSet,
\* buffersForCompaction).
CompactionSorts ==
    LET part == SubSeq(table, fresh + 1, Len(table))
        rows == FlattenSeq([g \in DOMAIN part |-> [i \in DOMAIN part[g].rows |-> DynamicRow(part[g], i)]])
    IN /\ Occurrences(RowsOf(table)) = Occurrences(RowsOf(parts))
       /\ \A i \in 1..Len(rows) - 1 : Cmp(rows[i], rows[i + 1]) <= 0

\* A comparison that the converter answers from the column index of a row group (distinct
\* without a filter), and answers otherwise than its rows do.
Misjudges(e, rg) ==
    /\ rg.kind = "parquet" /\ Computed(e) /\ Written(e, rg) \notin {<<>>, NotOptimized}
    /\ ToSet(Written(e, rg)) # {IF Cell(rg.cols, rg.rows[k], e.col) > e.lit THEN 1 ELSE 0 :
                                    k \in DOMAIN rg.rows}
Misjudged ==
    /\ MultiDistinct(phys.scan)
    /\ \E k \in DOMAIN phys.scan.distinct, g \in DOMAIN table : Misjudges(phys.scan.distinct[k], table[g])

\* A hash aggregation that went on in a new aggregate when the builders were full: the new one
\* counts no concrete aggregations, and the next record is refused (HashAggregate.Callback).
SplitIn(ops, states) == \E k \in DOMAIN states : ops[k].op = "hash" /\ Len(states[k]) > 1
AggregateSplit == SplitIn(phys.post, post) \/ \E i \in Inputs : SplitIn(phys.pre, inputs[i].ops)

\* A hash aggregation by a dynamic column of which the parts have different columns: the last
\* stage combines the hash of a group once for every group column of the record it comes in, so
\* that what two inputs have of one group may stay two rows (HashAggregate.Callback, finishAggregate).
GroupNode == Last(query.plan.nodes)
GroupColumns(part) == {c \in ToSet(part.cols) : \E k \in DOMAIN GroupNode.group : MatchColumn(GroupNode.group[k], c)}
Aggregates == GroupNode.node = "aggregate"
GroupsApart ==
    /\ Aggregates /\ \E k \in DOMAIN phys.pre : phys.pre[k].op = "hash"
    /\ \E i, j \in DOMAIN parts : GroupColumns(parts[i]) # GroupColumns(parts[j])

\* What the rows passed to the caller say, with the rows of a group put together.
Again(agg) == [agg EXCEPT !.fn = IF @ = "count" THEN "sum" ELSE @, !.col = agg.name]
Together(rows) == Grouped([GroupNode EXCEPT !.aggs = [k \in DOMAIN @ |-> Again(@[k])]], rows)
Result == IF GroupsApart THEN Together(RowsOf(output)) ELSE RowsOf(output)

\* A query that returns without an error has passed to the caller exactly the rows the query
\* means: whichever row groups the index filter skipped, however inputs shared the rest,
\* whatever the optimizers moved below what and however the table was compacted.  Each group
\* comes once, and where it may come in several rows (see GroupsApart) these add up to it, if
\* it is not an average.
\* Where a filter goes by whether the record has a column (see WithoutColumn) the rows are
\* those the filter accepts in any case, and none that it does not accept in either; nothing
\* is said then of what is aggregated from them.  DistinctCombinations is about the exception
\* Misjudged.  A query returns an error only when the caller cancelled it, the caller's callback
\* failed or one aggregate could not hold the groups (TableScan.Execute, Table.Iterator, the
\* operators' Callback and Finish).
Answerable ==
    /\ ~Misjudged
    /\ Aggregates => Answer(FALSE) = Answer(TRUE)
    /\ GroupsApart => \A k \in DOMAIN GroupNode.aggs : GroupNode.aggs[k].fn # "avg"
AnswersQuery ==
    /\ phase = "ok" /\ Answerable =>
          AtMost(Answer(FALSE), Result) /\ AtMost(Result, Answer(TRUE))
    /\ phase = "error" => cancelled \/ failures > 0 \/ AggregateSplit

\* "... we can repeat the values of the other columns as those are the only possible
\* combinations within the rowgroup": a distinct query is answered exactly, also where the
\* converter takes the distinct values from dictionaries and column indexes
\* (writeDistinctAllColumns, allOrNoneGreaterThan).
DistinctCombinations == phase = "ok" => Occurrences(RowsOf(output)) = Occurrences(Answer(FALSE))

\* "Since we have exactly o.sync.inputsWaiting waiting on the channel, send the corresponding
\* number of messages": the messages that the input holding the mutex still has to send are
\* as many as the inputs that receive on the channel (OrderedSynchronizer.mergeRecordsLocked).
WaitersExact ==
    sync.mtx # None => sync.wake = Cardinality({i \in Inputs : inputs[i].pc = "wait"})

\* Every query returns: while it runs, some goroutine of it is neither finished nor blocked
\* on the channel of row groups, the mutex or the channel of the OrderedSynchronizer, also
\* when a callback fails or the caller cancels.  No action can be taken for ever, so what is
\* never stuck returns (errg.Wait in Table.Iterator and TableScan.Execute).  The exception is
\* an input that was cancelled while it waited for the others, see WaitersExact.
CollectorBlocked == next <= Len(table) /\ Len(chan) = ChannelSize /\ ~ContextDone
CollectorFinished == closed \/ next = Len(table) + 2
Blocked(i) ==
    CASE inputs[i].pc = "scan" -> chan = <<>> /\ ~closed /\ ~ContextDone
      [] inputs[i].pc \in {"push", "merge"} -> phys.sync = "ordered" /\ sync.mtx # None
      [] inputs[i].pc \in {"wake", "wakeLast"} -> sync.wake > 0 /\ \A j \in Inputs : inputs[j].pc # "wait"
      [] inputs[i].pc = "wait" -> ~cancelled
      [] OTHER -> FALSE
Abandoned == cancelled /\ phys.sync = "ordered" /\ \E i \in Inputs : inputs[i].pc = "failed"
Finished(i) == inputs[i].pc \in {"drained", "failed", "done"}
NeverStuck ==
    \/ phase \in {"ok", "error"} \/ Abandoned
    \/ phase = "scan" /\ ~CollectorFinished /\ ~CollectorBlocked
    \/ \E i \in Inputs : ~Finished(i) /\ ~Blocked(i)
    \/ (phase = "scan" => CollectorFinished) /\ \A i \in Inputs : Finished(i)
================================================================================
