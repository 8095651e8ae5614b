------------------------------- MODULE Query -------------------------------
(***************************************************************************)
(* A SELECT from its syntax to its answer: BindQuery resolves the columns  *)
(* and builds the plan (binder/binder.cpp), the optimizer makes hash joins *)
(* (optimizer/optimizer.cpp), the executors evaluate it.  The rows come    *)
(* from the table heap as bytes.  Every executor here but the scan, limit  *)
(* and projection computes its rows in Init; those are pulled one by one,  *)
(* which makes no difference to a query nobody disturbs (Database is about *)
(* the others), so an executor is the sequence of the rows it returns.     *)
(* Only a LIMIT below which a row would throw stops short of that row.     *)
(***************************************************************************)
EXTENDS Row, FiniteSets

LOCAL Tools == INSTANCE TLC
LOCAL Lists == INSTANCE SequencesExt
LOCAL Sets == INSTANCE FiniteSetsExt

CONSTANTS
  Schemas,     \* Schemas[t]: the column types a table may have
  Names,       \* Names[t]: the names of its columns
  Values,      \* Values[type]: the values stored in a column
  MaxRows,     \* bounds the rows of a table
  Queries      \* the statements

ASSUME QueryAssumption ==
  /\ DOMAIN Schemas = {"L", "R"} /\ DOMAIN Names = {"L", "R"}
  /\ \A t \in {"L", "R"} : \A s \in Schemas[t] : Len(s) = Len(Names[t])
  /\ MaxRows \in Nat

VARIABLES
  schema,   \* schema[t]
  rows,     \* rows[t]: the rows that were inserted
  query,    \* the statement
  plan,     \* the plan, as far as it has come
  stage,    \* "new", "bound", "optimized", "done"
  result

vars == <<schema, rows, query, plan, stage, result>>

None == [k |-> "none"]
Failed == [ok |-> FALSE, rows |-> <<>>]     \* the answer is an ERROR message

-----------------------------------------------------------------------------
(* Binder.  A scope is a table with its place in the join.                 *)

Scopes(q) == IF q.from = "L" THEN <<"L">> ELSE <<"L", "R">>

\* ResolveColumn: the first scope that has the name, of those the qualifier
\* admits.  Columns are numbered from 1, tuples from 0.
Holders(c, scopes) ==
  {i \in 1 .. Len(scopes) :
     c.table \in {"", scopes[i]} /\ c.name \in Range(Names[scopes[i]])}

ResolveColumn(c, scopes) ==
  LET i == CHOOSE i \in Holders(c, scopes) : \A j \in Holders(c, scopes) : i <= j
  IN [k |-> "column", tuple |-> i - 1,
      col |-> CHOOSE n \in DOMAIN Names[scopes[i]] : Names[scopes[i]][n] = c.name]

\* BindExpression.  The leaves of the syntax tree are columns and constants.
RECURSIVE BindExpression(_, _)
BindExpression(e, scopes) ==
  CASE e.k = "ref" -> ResolveColumn(e, scopes)
    [] e.k \in {"compare", "compute", "logic"} ->
         [e EXCEPT !.left = BindExpression(e.left, scopes),
                   !.right = BindExpression(e.right, scopes)]
    [] OTHER -> e

\* The columns an expression mentions.
RECURSIVE RefsOf(_)
RefsOf(e) ==
  CASE e.k = "ref" -> {e}
    [] e.k \in {"compare", "compute", "logic"} -> RefsOf(e.left) \cup RefsOf(e.right)
    [] OTHER -> {}

\* The columns of the clauses that are evaluated above the scan or the join.
Above(q) ==
  Range(q.columns) \cup {q.aggs[i].arg : i \in 1 .. Len(q.aggs)}
    \cup (IF q.aggs = <<>> THEN {} ELSE Range(q.group))
    \cup (IF q.order = None THEN {} ELSE {q.order.column})

RefsAbove(q) == UNION {RefsOf(e) : e \in Above(q)}
RefsBelow(q) == RefsOf(q.on) \cup RefsOf(q.where)

BindFails(q) == \E c \in RefsAbove(q) \cup RefsBelow(q) : Holders(c, Scopes(q)) = {}

SeqScan(t, predicate) == [k |-> "scan", table |-> t, predicate |-> predicate]

\* FROM and WHERE.  Of a list of tables only the first is scanned.
BaseOf(q) ==
  LET on == BindExpression(q.on, Scopes(q))
      where == BindExpression(q.where, Scopes(q))
  IN IF q.from # "join" THEN SeqScan("L", where)
     ELSE [k |-> "nlj", left |-> SeqScan("L", None), right |-> SeqScan("R", None),
           predicate |-> IF on = None THEN where
                         ELSE IF where = None THEN on
                         ELSE [k |-> "logic", op |-> "and", left |-> on, right |-> where]]

BindAll(es, scopes) == [i \in 1 .. Len(es) |-> BindExpression(es[i], scopes)]

\* GROUP BY is not looked at without an aggregate.  COUNT of all rows has the
\* first column for an argument.
Aggregated(q, child) ==
  IF q.aggs = <<>> THEN child
  ELSE [k |-> "aggregation", child |-> child, groupBys |-> BindAll(q.group, Scopes(q)),
        aggs |-> [i \in 1 .. Len(q.aggs) |->
                    [q.aggs[i] EXCEPT !.arg =
                       IF q.aggs[i].type = "count_star" THEN [k |-> "column", tuple |-> 0, col |-> 1]
                       ELSE BindExpression(@, Scopes(q))]]]

Sorted(q, child) ==
  IF q.order = None THEN child
  ELSE [k |-> "sort", child |-> child, ascending |-> q.order.ascending,
        by |-> BindExpression(q.order.column, Scopes(q))]

Limited(q, child) ==
  IF q.limit = None THEN child ELSE [k |-> "limit", child |-> child, limit |-> q.limit.n]

Projected(q, child) ==
  IF q.star \/ q.aggs # <<>> \/ q.columns = <<>> THEN child
  ELSE [k |-> "projection", child |-> child, exprs |-> BindAll(q.columns, Scopes(q))]

\* Mutant: the rows are limited before they are sorted.
BindLimitsFirst(q) ==
  Projected(q, Sorted(q, Limited(q, Aggregated(q, BaseOf(q)))))

BindQuery(q) == Projected(q, Limited(q, Sorted(q, Aggregated(q, BaseOf(q)))))

-----------------------------------------------------------------------------
(* Optimizer.                                                              *)

Key(c) == [c EXCEPT !.tuple = 0]

\* Mutant: the operands are not told apart.
HashJoinAsWritten(p) ==
  IF /\ p.k = "nlj" /\ p.predicate.k = "compare" /\ p.predicate.op = "="
     /\ p.predicate.left.k = "column" /\ p.predicate.right.k = "column"
     /\ p.predicate.left.tuple # p.predicate.right.tuple
  THEN [k |-> "hash", left |-> p.left, right |-> p.right,
        leftKey |-> Key(p.predicate.left), rightKey |-> Key(p.predicate.right)]
  ELSE p

\* OptimizeNLJToHashJoin: an equality of a column of each table.
OptimizeNLJToHashJoin(p) ==
  IF /\ p.k = "nlj" /\ p.predicate.k = "compare" /\ p.predicate.op = "="
     /\ p.predicate.left.k = "column" /\ p.predicate.right.k = "column"
     /\ p.predicate.left.tuple # p.predicate.right.tuple
  THEN LET swap == p.predicate.left.tuple = 1 IN
       [k |-> "hash", left |-> p.left, right |-> p.right,
        leftKey |-> Key(IF swap THEN p.predicate.right ELSE p.predicate.left),
        rightKey |-> Key(IF swap THEN p.predicate.left ELSE p.predicate.right)]
  ELSE p

RECURSIVE Optimize(_)
Optimize(p) ==
  OptimizeNLJToHashJoin(
    CASE p.k = "scan" -> p
      [] p.k = "nlj" -> [p EXCEPT !.left = Optimize(@), !.right = Optimize(@)]
      [] OTHER -> [p EXCEPT !.child = Optimize(@)])

-----------------------------------------------------------------------------
(* Expressions.                                                            *)

At(tuple, n) == IF n <= Len(tuple) THEN tuple[n] ELSE Garbage("INTEGER")

\* PerformComparison, PerformComputation, PerformLogic: both operands have
\* been evaluated, whatever the first one was.
Apply(e, x, y) ==
  CASE e.k = "compare" -> Compare(e.op, x, y)
    [] e.k = "compute" -> Compute(e.op, x, y)
    [] e.k = "logic" -> Logic(e.op, x, y)

\* EvaluateJoin takes a column from the tuple of the table it was bound to.
RECURSIVE EvaluateJoin(_, _, _)
EvaluateJoin(e, left, right) ==
  CASE e.k = "column" -> IF e.tuple = 0 THEN At(left, e.col) ELSE At(right, e.col)
    [] e.k = "constant" -> e.value
    [] OTHER -> Apply(e, EvaluateJoin(e.left, left, right), EvaluateJoin(e.right, left, right))

\* Evaluate has one tuple, and takes every column from it.
Evaluate(e, tuple) == EvaluateJoin(e, tuple, tuple)

Holds(predicate, left, right) ==
  IF predicate = None THEN Boolean(TRUE) ELSE EvaluateJoin(predicate, left, right)

-----------------------------------------------------------------------------
(* Executors.  One that throws makes the statement fail.                   *)

Returns(tuples) == [ok |-> TRUE, rows |-> tuples]

\* The tuples whose verdict is true; a verdict that is no boolean throws.
Filtered(tuples, verdicts) ==
  IF \E i \in 1 .. Len(tuples) : verdicts[i].type # "BOOLEAN" THEN Failed
  ELSE LET kept == SelectSeq([i \in 1 .. Len(tuples) |-> i],
                             LAMBDA i : verdicts[i] = Boolean(TRUE))
       IN Returns([n \in 1 .. Len(kept) |-> tuples[kept[n]]])

RunSeqScan(p) ==
  LET tuples == [i \in 1 .. Len(rows[p.table]) |-> ReadBack(schema[p.table], rows[p.table][i])]
  IN Filtered(tuples, [i \in 1 .. Len(tuples) |-> Holds(p.predicate, tuples[i], tuples[i])])

\* All pairs, those of the first tuple of s first.
Pairs(s, t) == [n \in 1 .. Len(s) * Len(t) |->
                  <<s[((n - 1) \div Len(t)) + 1], t[((n - 1) % Len(t)) + 1]>>]

Glue(pairs) == [i \in 1 .. Len(pairs) |-> pairs[i][1] \o pairs[i][2]]

RunNestedLoopJoin(p, left, right) ==
  LET pairs == Pairs(left, right)
  IN Filtered(Glue(pairs),
              [i \in 1 .. Len(pairs) |-> Holds(p.predicate, pairs[i][1], pairs[i][2])])

\* The left tuples are hashed by the text of their key, the right ones probe.
RunHashJoin(p, left, right) ==
  LET same(x) == ToString(Evaluate(p.leftKey, x[2])) = ToString(Evaluate(p.rightKey, x[1]))
      matches == SelectSeq(Pairs(right, left), same)
  IN Returns([i \in 1 .. Len(matches) |-> matches[i][2] \o matches[i][1]])

\* A group has one count, one sum, one minimum and one maximum, into which
\* all aggregates of that type go.
Fed(p, type, tuples) ==
  LET of == {i \in 1 .. Len(p.aggs) : p.aggs[i].type = type} IN
  [x \in (1 .. Len(tuples)) \X of |-> Evaluate(p.aggs[x[2]].arg, tuples[x[1]]).v]

Aggregate(p, type, tuples) ==
  LET fed == Fed(p, type, tuples) IN
  Integer(CASE type = "count_star" -> Len(tuples)
            [] type = "count" -> Cardinality(DOMAIN fed)
            [] DOMAIN fed = {} -> 0
            [] type = "sum" -> FoldFunction(LAMBDA a, b : a + b, 0, fed)
            [] type = "min" -> Sets!Min(Range(fed))
            [] type = "max" -> Sets!Max(Range(fed)))

\* The groups, by the text of their keys.  Their order is that of a hash map.
RunAggregation(p, tuples) ==
  LET keyOf(x) == [i \in 1 .. Len(p.groupBys) |-> ToString(Evaluate(p.groupBys[i], x))]
      keys == {keyOf(tuples[i]) : i \in 1 .. Len(tuples)}
      member(k) == SelectSeq(tuples, LAMBDA x : keyOf(x) = k)
      row(k) == [i \in 1 .. Len(p.groupBys) |-> Evaluate(p.groupBys[i], member(k)[1])]
                  \o [i \in 1 .. Len(p.aggs) |-> Aggregate(p, p.aggs[i].type, member(k))]
      throws(x) ==
        \/ \E e \in Range(p.groupBys) \cup {p.aggs[i].arg : i \in 1 .. Len(p.aggs)} :
             Evaluate(e, x) = Thrown
        \/ \E i \in 1 .. Len(p.aggs) : /\ p.aggs[i].type \in {"sum", "min", "max"}
                                       /\ Evaluate(p.aggs[i].arg, x).type # "INTEGER"
  IN IF \E i \in 1 .. Len(tuples) : throws(tuples[i]) THEN Failed
     ELSE IF keys = {} /\ p.groupBys = <<>>
     THEN Returns(<<[i \in 1 .. Len(p.aggs) |-> Integer(0)]>>)
     ELSE LET order == Lists!SetToSeq(keys) IN
          Returns([i \in 1 .. Len(order) |-> row(order[i])])

\* std::sort leaves tuples with equal keys in an order of its own; this is one.
RunSort(p, tuples) ==
  LET key(x) == Evaluate(p.by, x)
      before(x, y) == IF p.ascending THEN key(x).v < key(y).v ELSE key(x).v > key(y).v
      throws(x, y) == \/ Compare("=", key(x), key(y)) = Thrown
                      \/ key(x) # key(y) /\ Compare("<", key(x), key(y)) = Thrown
  IN IF \E i, j \in 1 .. Len(tuples) : i # j /\ throws(tuples[i], tuples[j]) THEN Failed
     ELSE Returns(Tools!SortSeq(tuples, before))

RunLimit(p, tuples) ==
  Returns(SubSeq(tuples, 1, IF p.limit < Len(tuples) THEN p.limit ELSE Len(tuples)))

RunProjection(p, tuples) ==
  LET out(x) == [j \in 1 .. Len(p.exprs) |-> Evaluate(p.exprs[j], x)] IN
  IF \E i \in 1 .. Len(tuples) : Thrown \in Range(out(tuples[i])) THEN Failed
  ELSE Returns([i \in 1 .. Len(tuples) |-> out(tuples[i])])

\* ExecutorFactory::CreateExecutor and ExecutionEngine::Execute.
RECURSIVE Execute(_)
Execute(p) ==
  CASE p.k = "scan" -> RunSeqScan(p)
    [] p.k \in {"nlj", "hash"} ->
         LET left == Execute(p.left)  right == Execute(p.right) IN
         IF ~left.ok \/ ~right.ok THEN Failed
         ELSE IF p.k = "nlj" THEN RunNestedLoopJoin(p, left.rows, right.rows)
         ELSE RunHashJoin(p, left.rows, right.rows)
    [] OTHER ->
         LET child == Execute(p.child) IN
         IF ~child.ok THEN Failed
         ELSE CASE p.k = "aggregation" -> RunAggregation(p, child.rows)
                [] p.k = "sort" -> RunSort(p, child.rows)
                [] p.k = "limit" -> RunLimit(p, child.rows)
                [] p.k = "projection" -> RunProjection(p, child.rows)

-----------------------------------------------------------------------------
RowsOf(s) == {r \in [1 .. Len(s) -> UNION Range(Values)] :
                \A i \in 1 .. Len(s) : r[i] \in Values[s[i]]}

Init ==
  /\ schema \in [{"L", "R"} -> UNION Range(Schemas)]
  /\ \A t \in {"L", "R"} : schema[t] \in Schemas[t]
  /\ rows = [t \in {"L", "R"} |-> <<>>]
  /\ query = None /\ plan = None /\ stage = "new" /\ result = Failed

Load(t, r) ==
  /\ stage = "new" /\ Len(rows[t]) < MaxRows
  /\ rows' = [rows EXCEPT ![t] = Append(@, r)]
  /\ UNCHANGED <<schema, query, plan, stage, result>>

Bind(q) ==
  /\ stage = "new" /\ ~BindFails(q)
  /\ query' = q /\ plan' = BindQuery(q) /\ stage' = "bound"
  /\ UNCHANGED <<schema, rows, result>>

\* "Column not found"
BindThrows(q) ==
  /\ stage = "new" /\ BindFails(q)
  /\ query' = q /\ stage' = "done"
  /\ UNCHANGED <<schema, rows, plan, result>>

OptimizePlan ==
  /\ stage = "bound"
  /\ plan' = Optimize(plan) /\ stage' = "optimized"
  /\ UNCHANGED <<schema, rows, query, result>>

ExecutePlan ==
  /\ stage = "optimized"
  /\ result' = Execute(plan) /\ stage' = "done"
  /\ UNCHANGED <<schema, rows, query, plan>>

Next ==
  \/ \E t \in {"L", "R"} : \E r \in RowsOf(schema[t]) : Load(t, r)
  \/ \E q \in Queries : Bind(q) \/ BindThrows(q)
  \/ OptimizePlan
  \/ ExecutePlan

Spec == Init /\ [][Next]_vars

-----------------------------------------------------------------------------
(* What SQL says, from the rows as they were inserted.  A candidate is a   *)
(* row of L, or a row of L and one of R, by their positions.               *)

Candidates(q) ==
  {<<i, j>> : i \in 1 .. Len(rows["L"]),
              j \in IF q.from = "L" THEN {0} ELSE 1 .. Len(rows["R"])}

TableOf(c, q) == LET ss == Scopes(q) IN
  ss[CHOOSE i \in Holders(c, ss) : \A j \in Holders(c, ss) : i <= j]
ColumnOf(c, q) == CHOOSE n \in DOMAIN Names[TableOf(c, q)] : Names[TableOf(c, q)][n] = c.name

SqlColumn(c, q, x) ==
  IF TableOf(c, q) = "L" THEN rows["L"][x[1]][ColumnOf(c, q)]
  ELSE rows["R"][x[2]][ColumnOf(c, q)]

RECURSIVE SqlValue(_, _, _)
SqlValue(e, q, x) ==
  CASE e.k = "ref" -> SqlColumn(e, q, x)
    [] e.k = "constant" -> e.value
    [] e = None -> Boolean(TRUE)
    [] OTHER -> Apply(e, SqlValue(e.left, q, x), SqlValue(e.right, q, x))

Selected(q) == {x \in Candidates(q) : /\ SqlValue(q.on, q, x) = Boolean(TRUE)
                                      /\ SqlValue(q.where, q, x) = Boolean(TRUE)}

SqlAggregate(a, q, group) ==
  LET fed == {SqlValue(a.arg, q, x).v : x \in group} IN
  Integer(CASE a.type \in {"count_star", "count"} -> Cardinality(group)
            [] a.type = "sum" -> FoldFunction(LAMBDA m, n : m + n, 0,
                                              [x \in group |-> SqlValue(a.arg, q, x).v])
            [] a.type = "min" -> Sets!Min(fed)
            [] a.type = "max" -> Sets!Max(fed))

\* The groups of the selected rows: one, if there is no GROUP BY.
Groups(q) ==
  LET key(x) == [i \in 1 .. Len(q.group) |-> SqlValue(q.group[i], q, x)] IN
  IF q.group = <<>> THEN {Selected(q)}
  ELSE {{y \in Selected(q) : key(y) = key(x)} : x \in Selected(q)}

\* The rows of the answer, each with what it is sorted by, in some order.
SqlRows(q) ==
  LET row(x) == [by |-> IF q.order = None THEN 0 ELSE SqlValue(q.order.column, q, x).v,
                 out |-> IF ~q.star THEN [i \in 1 .. Len(q.columns) |-> SqlValue(q.columns[i], q, x)]
                         ELSE rows["L"][x[1]] \o (IF x[2] = 0 THEN <<>> ELSE rows["R"][x[2]])]
      groupRow(g) == [by |-> 0,
                      out |-> [i \in 1 .. Len(q.group) |->
                                 SqlValue(q.group[i], q, CHOOSE x \in g : TRUE)]
                              \o [i \in 1 .. Len(q.aggs) |-> SqlAggregate(q.aggs[i], q, g)]]
  IN IF q.aggs = <<>>
     THEN LET s == Lists!SetToSeq(Selected(q)) IN [i \in 1 .. Len(s) |-> row(s[i])]
     ELSE LET s == Lists!SetToSeq(Groups(q)) IN [i \in 1 .. Len(s) |-> groupRow(s[i])]

\* An answer has the rows of SQL in an order ORDER BY admits, cut off at LIMIT.
Acceptable(answer, q) ==
  LET all == SqlRows(q)
      n == IF q.limit # None /\ q.limit.n < Len(all) THEN q.limit.n ELSE Len(all)
      ordered(f) == q.order = None \/ \A i, j \in 1 .. Len(all) : i < j =>
                      IF q.order.ascending THEN all[f[i]].by <= all[f[j]].by
                      ELSE all[f[i]].by >= all[f[j]].by
  IN \E f \in Tools!Permutations(1 .. Len(all)) :
       ordered(f) /\ answer = [i \in 1 .. n |-> all[f[i]].out]

-----------------------------------------------------------------------------
(* The queries the code answers as SQL does.                               *)

TypeOf(c, q) == schema[TableOf(c, q)][ColumnOf(c, q)]

RECURSIVE ExprType(_, _)
ExprType(e, q) ==
  CASE e.k = "ref" -> TypeOf(e, q)
    [] e.k = "constant" -> e.value.type
    [] e.k = "compare" -> IF ExprType(e.left, q) = ExprType(e.right, q) THEN "BOOLEAN" ELSE "none"
    [] e.k = "logic" -> IF {ExprType(e.left, q), ExprType(e.right, q)} = {"BOOLEAN"}
                        THEN "BOOLEAN" ELSE "none"
    [] e.k = "compute" -> IF {ExprType(e.left, q), ExprType(e.right, q)} = {"INTEGER"}
                          THEN "INTEGER" ELSE "none"
    [] OTHER -> "BOOLEAN"

\* Schema and Tuple agree on the offsets: FLOAT and VARCHAR come last.
OffsetsAgree ==
  \A t \in {"L", "R"} : \A i \in 1 .. Len(schema[t]) - 1 :
    schema[t][i] \in {"INTEGER", "BOOLEAN"}

WellTyped(q) ==
  /\ ExprType(q.on, q) = "BOOLEAN" /\ ExprType(q.where, q) = "BOOLEAN"
  /\ \A e \in Range(q.columns) : ExprType(e, q) # "none"
  /\ \A i \in 1 .. Len(q.aggs) :
       q.aggs[i].type = "count_star" \/ ExprType(q.aggs[i].arg, q) = "INTEGER"

\* Texts of keys tell the keys apart.
KeysPrintExactly(q) ==
  \A c \in RefsOf(q.on) \cup UNION {RefsOf(e) : e \in Range(q.group)} :
    TypeOf(c, q) # "FLOAT"

\* Above a join a column is looked up at its place in its own table.
UsesLeftColumns(q) == \A c \in RefsAbove(q) : TableOf(c, q) = "L"

PlainAggregation(q) ==
  IF q.aggs = <<>> THEN q.group = <<>> /\ (q.star => q.columns = <<>>)
  ELSE /\ q.columns = q.group /\ q.order = None /\ ~q.star
       /\ \A i, j \in 1 .. Len(q.aggs) : i # j => q.aggs[i].type # q.aggs[j].type
       /\ Selected(q) # {}

Bound == stage = "done" /\ ~BindFails(query)

\* A SELECT is answered as SQL says, through binding, the optimizer's choice
\* of join, the layout of the rows and the order of the plan's operators,
\* if it keeps to what the code supports: one table or a JOIN .. ON, columns
\* of the left table above the join, at most one aggregate of a kind, its
\* group columns as the other targets, comparisons of one type, no column
\* behind a FLOAT or VARCHAR one.
AnswerMatchesSQL ==
  Bound /\ query.from # "list" /\ OffsetsAgree /\ WellTyped(query)
    /\ KeysPrintExactly(query) /\ UsesLeftColumns(query) /\ PlainAggregation(query) =>
      result.ok /\ Acceptable(result.rows, query)

Copies(s, x) == Cardinality({i \in 1 .. Len(s) : s[i] = x})

\* The optimizer never changes an answer: a hash join returns what the nested
\* loop join it replaces would, unless its keys differ in type or are
\* floats, or LIMIT cuts off the rows in the order they come.
OptimizerPreservesAnswers ==
  Bound /\ query.limit = None /\ WellTyped(query) /\ KeysPrintExactly(query) =>
    LET plain == Execute(BindQuery(query)) IN
    /\ result.ok = plain.ok
    /\ \A x \in Range(result.rows) \cup Range(plain.rows) :
         Copies(result.rows, x) = Copies(plain.rows, x)
=============================================================================
