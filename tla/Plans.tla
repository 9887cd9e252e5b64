--------------------------------- MODULE Plans ---------------------------------
(***************************************************************************)
(* Query planning: the optimizers of logicalplan and the construction of    *)
(* the physical plan.                                                       *)
(*                                                                          *)
(* A logical plan is the options of its table scan and its nodes in the     *)
(* order the records meet them.  The optimizers and the collectors of       *)
(* columns walk from the last node to the scan.                             *)
(***************************************************************************)
EXTENDS Operators

CONSTANTS SumOf, CountOf    \* what the names sum(c) and count(c) begin with

FilterNode(e) == [node |-> "filter", expr |-> e]
DistinctNode(exprs) == [node |-> "distinct", exprs |-> exprs]
ProjectNode(exprs) == [node |-> "project", exprs |-> exprs]
AggregateNode(aggs, group) == [node |-> "aggregate", aggs |-> aggs, group |-> group]
Scan(nodes) ==
    [scan |-> [physical |-> <<>>, filter |-> NoFilter, distinct |-> <<>>], nodes |-> nodes]

\* Collects something from every node, from the last node to the scan.
Collect(plan, From(_)) == FlattenSeq([k \in DOMAIN plan.nodes |-> From(plan.nodes[Len(plan.nodes) + 1 - k])])

NodeExprs(node) == IF node.node \in {"distinct", "project"} THEN node.exprs ELSE <<>>
UsedBy(exprs) == FlattenSeq([k \in DOMAIN exprs |-> ColumnsUsed(exprs[k])])
AggregatedColumns(node) == [k \in DOMAIN node.aggs |-> Col(node.aggs[k].col)]

(***************************************************************************)
(* Validation and the optimizers, in the order of DefaultOptimizers.        *)
(***************************************************************************)
\* ValidateAggregationExpr: the column exists and has a type the function takes.
ValidAggregation(node, columns) ==
    /\ node.aggs # <<>>
    /\ \A k \in DOMAIN node.aggs :
          /\ node.aggs[k].col[1] \in columns
          /\ node.aggs[k].fn \in {"sum", "max"} => IsInt64(node.aggs[k].col)
Validate(plan, columns) ==
    \A k \in DOMAIN plan.nodes :
        plan.nodes[k].node = "aggregate" => ValidAggregation(plan.nodes[k], columns)

\* A plan whose aggregation has a second average does not get to run: after the first one the
\* loop works on the projection it made, and panics, or it passes over the second one, which no
\* operator computes.
OneAverage(plan) ==
    \A k \in DOMAIN plan.nodes : plan.nodes[k].node = "aggregate" =>
        Len(SelectSeq(plan.nodes[k].aggs, LAMBDA agg : agg.fn = "avg")) <= 1

\* An average over the last node becomes a sum and a count, and a projection that divides them.
AverageAggregationPushDown(plan) ==
    LET n    == Len(plan.nodes)
        last == plan.nodes[n]
        avgs == SelectSeq(Numbers(last.aggs), LAMBDA k : last.aggs[k].fn = "avg")
        avg  == last.aggs[avgs[1]]
        sum  == [fn |-> "sum", col |-> avg.col, name |-> <<SumOf>> \o avg.col]
        count == [fn |-> "count", col |-> avg.col, name |-> <<CountOf>> \o avg.col]
        rest == RemoveAt(last.aggs, avgs[1])
        mean == [expr |-> "average", name |-> avg.name, of |-> avg.col, sum |-> sum.name, count |-> count.name]
    IN IF n = 0 \/ last.node # "aggregate" \/ avgs = <<>> THEN plan
       ELSE [plan EXCEPT !.nodes[n].aggs = rest \o <<sum, count>>,
                         !.nodes = Append(@, ProjectNode(<<mean>>))]

PhysicalColumns(node) ==
    CASE node.node = "filter"    -> FilterColumnsUsed(node.expr)
      [] node.node = "aggregate" -> UsedBy(node.group) \o AggregatedColumns(node) \o <<DynCol(HashedPrefix)>>
      [] OTHER                   -> UsedBy(node.exprs)
PhysicalProjectionPushDown(plan) ==
    [plan EXCEPT !.scan.physical =
        IF plan.nodes = <<>> THEN <<NotDynCol(HashedPrefix)>> ELSE Collect(plan, PhysicalColumns)]

And(exprs) == FoldRight(LAMBDA e, rest : IF rest = NoFilter THEN e ELSE [op |-> "and", left |-> e, right |-> rest],
                        exprs, NoFilter)
FilterPushDown(plan) ==
    LET filter(node) == IF node.node = "filter" THEN <<node.expr>> ELSE <<>>
    IN [plan EXCEPT !.scan.filter = And(Collect(plan, filter))]

DistinctPushDown(plan) ==
    LET distinct(node) == IF node.node = "distinct" THEN node.exprs ELSE <<>>
    IN [plan EXCEPT !.scan.distinct = Collect(plan, distinct)]

\* The outermost projection, or the columns of a distinct, move down to the scan unless a
\* filter or an aggregation uses a column that no projection has.
ProjectionPushDown(plan) ==
    LET projected(node) == IF node.node = "project" THEN UsedBy(node.exprs) ELSE <<>>
        needed(node) == CASE node.node = "filter"    -> FilterColumnsUsed(node.expr)
                          [] node.node = "aggregate" -> UsedBy(node.group) \o AggregatedColumns(node)
                          [] OTHER                   -> <<>>
        names(exprs) == {exprs[k].name : k \in DOMAIN exprs}
        moved == Collect(plan, NodeExprs)
        last  == {k \in DOMAIN plan.nodes : plan.nodes[k].node = "project"}
        kept  == IF last = {} THEN plan.nodes ELSE RemoveAt(plan.nodes, Max(last))
    IN IF moved = <<>> \/ ~(names(Collect(plan, needed)) \subseteq names(Collect(plan, projected)))
       THEN plan
       ELSE [plan EXCEPT !.nodes = <<ProjectNode(moved)>> \o kept]

Optimize(plan) ==
    ProjectionPushDown(DistinctPushDown(FilterPushDown(PhysicalProjectionPushDown(AverageAggregationPushDown(plan)))))

(***************************************************************************)
(* The ordering an operator can expect: the state of planOrderingInfo and   *)
(* the number of leading sorting columns that equality filters cover.       *)
(***************************************************************************)
NewNode(state) == IF state = "new" THEN "invalidated" ELSE "new"
MaintainsOrdering(state) == IF state = "new" THEN "maintained" ELSE state

RECURSIVE EqualityColumns(_)
EqualityColumns(e) ==
    CASE e.op \in {"and", "or"} -> EqualityColumns(e.left) \cup EqualityColumns(e.right)
      [] e.op = "=="            -> {e.col}
      [] OTHER                  -> {}
Covered(e) ==
    LET covers(k) == ~SortingColumns[k].dynamic /\ SortingColumns[k].name \in EqualityColumns(e)
    IN Cardinality({k \in DOMAIN SortingColumns : \A j \in 1..k : covers(j)})
ApplyFilter(ord, e) ==
    IF ord.state = "invalidated" THEN ord ELSE [ord EXCEPT !.cover = @ + Covered(e)]

GroupsBy(e, column) ==
    /\ (e.expr = "dynamic") = column.dynamic
    /\ e.name = column.name
ShouldPlanOrderedAggregate(enabled, ord, node) ==
    LET ordering == SubSeq(SortingColumns, ord.cover + 1, Len(SortingColumns))
    IN /\ enabled
       /\ Len(node.aggs) <= 1
       /\ ord.state # "invalidated"
       /\ Len(node.group) <= Len(ordering)
       /\ \A k \in DOMAIN node.group : GroupsBy(node.group[k], ordering[k])

(***************************************************************************)
(* Build.  The operators every input has of its own, the synchronizer that  *)
(* joins the inputs and the operators after it.                             *)
(***************************************************************************)
NewPlan == [pre |-> <<>>, sync |-> "none", by |-> <<>>, post |-> <<>>,
            ord |-> [state |-> "init", cover |-> 0]]
AddOperator(p, op) ==
    IF p.sync = "none" THEN [p EXCEPT !.pre = Append(@, op)] ELSE [p EXCEPT !.post = Append(@, op)]
\* An operator of every input, a synchronizer, and the operator that combines them; a
\* single operator where the inputs are already joined.
AddStages(p, kind, by, first, last) ==
    IF p.sync = "none"
    THEN [p EXCEPT !.pre = Append(@, first), !.sync = kind, !.by = by, !.post = <<last>>]
    ELSE [p EXCEPT !.post = Append(@, last)]

BuildAggregation(enabled, p, node) ==
    LET ordered == ShouldPlanOrderedAggregate(enabled, p.ord, node)
        stage(final) == [op |-> IF ordered THEN "ordered" ELSE "hash", final |-> final,
                         aggs |-> node.aggs, group |-> node.group]
        kind    == IF ordered /\ node.group # <<>> THEN "ordered" ELSE "plain"
        built   == AddStages(p, kind, node.group, stage(FALSE), stage(TRUE))
    IN IF ordered THEN [built EXCEPT !.ord.state = MaintainsOrdering(@)] ELSE built
BuildFilter(p, node) ==
    LET built == AddOperator(p, [op |-> "filter", expr |-> node.expr])
        ord   == ApplyFilter(built.ord, node.expr)
    IN [built EXCEPT !.ord = [ord EXCEPT !.state = MaintainsOrdering(@)]]
BuildProjection(p, node) ==
    IF \E k \in DOMAIN node.exprs : node.exprs[k].expr = "all" THEN p
    ELSE AddOperator(p, [op |-> "project", exprs |-> node.exprs])
BuildNode(enabled, p, node) ==
    LET seen == [p EXCEPT !.ord.state = NewNode(@)]
        distinct == [op |-> "distinct", exprs |-> NodeExprs(node)]
    IN CASE node.node = "filter"    -> BuildFilter(seen, node)
         [] node.node = "project"   -> BuildProjection(seen, node)
         [] node.node = "distinct"  -> AddStages(seen, "plain", <<>>, distinct, distinct)
         [] node.node = "aggregate" -> BuildAggregation(enabled, seen, node)

\* The scan maintains the ordering; inputs that nothing joined are joined last.
Build(plan, enabled) ==
    LET scanned == [NewPlan EXCEPT !.ord.state = MaintainsOrdering(NewNode(@))]
        built   == FoldLeft(LAMBDA p, node : BuildNode(enabled, p, node), scanned, plan.nodes)
    IN [scan |-> plan.scan, pre |-> built.pre, by |-> built.by, post |-> built.post,
        sync |-> IF built.sync = "none" THEN "plain" ELSE built.sync]
================================================================================
