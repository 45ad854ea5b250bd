------------------------------ MODULE SqlQuery ------------------------------
(***************************************************************************)
(* Queries: expression evaluation, sources and index filters, joins,       *)
(* grouping, projection, DISTINCT, ORDER BY and LIMIT (execute_query and   *)
(* what it calls in sql/executor.rs), the constant folding of the          *)
(* optimizer (sql/planner.rs), and the LIKE matcher (sql/types.rs).        *)
(*                                                                         *)
(* An expression or query is a record as the parser builds it; a clause    *)
(* that may be absent is a set of at most one element.  db is what a query *)
(* reads: tables, with the columns that have an index of their own, and    *)
(* the named relations of WITH.  An error is the value Error.              *)
(*                                                                         *)
(* Left out: multiplication, division of FLOATs and AVG (numbers count     *)
(* halves), arithmetic at the limits of i64 or on numbers that doubles     *)
(* round, unbound parameters, the cache of subquery results.               *)
(***************************************************************************)
EXTENDS QueryOperators

CONSTANTS
  Schemas,       \* table -> its columns' names
  Contents,      \* table -> the rows that may be inserted
  Indexable,     \* <<table, column>>: the indexes that may be created
  Queries,       \* the queries asked
  MaxTotalRows   \* bound: rows in all tables together

VARIABLES
  tables,   \* table -> [columns, rows, indexed]
  asked,    \* the query being answered, if any
  answer    \* its result

vars == <<tables, asked, answer>>

----------------------------------------------------------------------------
(* Columns *)

Resolving(columns, qualifier, name) ==
  {i \in DOMAIN columns : /\ columns[i].name = name
                          /\ qualifier \in {"", columns[i].table}}

ResolvesColumn(columns, e) == Cardinality(Resolving(columns, e.qualifier, e.name)) = 1

ResolveColumn(columns, e) == CHOOSE i \in Resolving(columns, e.qualifier, e.name) : TRUE

Requalify(rel, table) ==
  [rel EXCEPT !.columns = [i \in DOMAIN @ |-> [@[i] EXCEPT !.table = table]]]

----------------------------------------------------------------------------
(* Index predicates.  The qualifier of a column is not looked at. *)

\* Slip: a comparison is not turned round when the literal comes first.
RECURSIVE IndexPredicates_NoReverse(_)
IndexPredicates_NoReverse(e) ==
  CASE e.kind = "and" -> IndexPredicates_NoReverse(e.left)
                         \o IndexPredicates_NoReverse(e.right)
    [] e.kind = "compare" /\ e.left.kind = "column" /\ e.right.kind = "literal" ->
         <<[name |-> e.left.name, op |-> e.op, value |-> e.right.value]>>
    [] e.kind = "compare" /\ e.left.kind = "literal" /\ e.right.kind = "column" ->
         <<[name |-> e.right.name, op |-> e.op, value |-> e.left.value]>>
    [] OTHER -> <<>>

RECURSIVE IndexPredicates(_)
IndexPredicates(e) ==
  CASE e.kind = "and" -> IndexPredicates(e.left) \o IndexPredicates(e.right)
    [] e.kind = "compare" /\ e.left.kind = "column" /\ e.right.kind = "literal" ->
         <<[name |-> e.left.name, op |-> e.op, value |-> e.right.value]>>
    [] e.kind = "compare" /\ e.left.kind = "literal" /\ e.right.kind = "column" ->
         <<[name |-> e.right.name, op |-> ReverseComparison(e.op),
            value |-> e.left.value]>>
    [] OTHER -> <<>>

----------------------------------------------------------------------------
(* Evaluation *)

RECURSIVE HasAggregate(_)
HasAggregate(e) ==
  CASE e.kind = "aggregate" -> TRUE
    [] e.kind \in {"and", "or", "compare", "arithmetic"} ->
         HasAggregate(e.left) \/ HasAggregate(e.right)
    [] e.kind \in {"unary", "isNull", "like"} -> HasAggregate(e.expr)
    [] e.kind = "in" -> \/ HasAggregate(e.expr)
                        \/ \E i \in DOMAIN e.list : HasAggregate(e.list[i])
    [] OTHER -> FALSE

RECURSIVE ExpressionResolves(_, _)
ExpressionResolves(e, columns) ==
  CASE e.kind = "column" -> ResolvesColumn(columns, e)
    [] e.kind = "literal" -> TRUE
    [] e.kind \in {"and", "or", "compare", "arithmetic"} ->
         ExpressionResolves(e.left, columns) /\ ExpressionResolves(e.right, columns)
    [] e.kind \in {"unary", "isNull", "like"} -> ExpressionResolves(e.expr, columns)
    [] e.kind = "in" -> /\ ExpressionResolves(e.expr, columns)
                        /\ \A i \in DOMAIN e.list : ExpressionResolves(e.list[i], columns)
    [] OTHER -> FALSE

\* A query without aggregates is projected row by row.
IsAggregate(q) ==
  \/ q.groupBy # <<>>
  \/ \E i \in DOMAIN q.projection :
       q.projection[i].kind = "expr" /\ HasAggregate(q.projection[i].expr)
  \/ \E h \in q.having : HasAggregate(h)

RECURSIVE EvalExpr(_, _, _, _, _)
RECURSIVE ExecuteQuery(_, _)

EvalExpr(e, columns, row, group, db) ==
  LET eval(x) == EvalExpr(x, columns, row, group, db)
  IN CASE e.kind = "literal" -> e.value
       [] e.kind = "column" -> IF ResolvesColumn(columns, e)
                               THEN row[ResolveColumn(columns, e)] ELSE Error
       [] e.kind \in {"and", "or", "compare", "arithmetic"} ->
            BinaryValue(e, eval(e.left), eval(e.right))
       [] e.kind \in {"unary", "isNull"} -> OperandValue(e, eval(e.expr))
       [] e.kind = "in" ->
            InListValue(e, eval(e.expr), [i \in DOMAIN e.list |-> eval(e.list[i])])
       [] e.kind = "like" -> LikeValue(e, eval(e.expr), eval(e.pattern))
       [] e.kind \in {"inSubquery", "exists", "scalar"} ->
            EvalSubquery(e, IF e.kind = "inSubquery" THEN eval(e.expr) ELSE Null,
                         ExecuteQuery(e.query, db))
       [] e.kind = "aggregate" ->
            AggregateOf(e, group, [i \in DOMAIN group.rows |->
              IF e.expr = {} THEN IntegerValue(1)
              ELSE EvalExpr(CHOOSE x \in e.expr : TRUE, columns, group.rows[i],
                            NoGroup, db)])

----------------------------------------------------------------------------
(* Sources and joins *)

SourceRelation(source, selection, db) ==
  LET visible == IF source.alias = "" THEN source.name ELSE source.alias
      table == db.tables[source.name]
  IN IF source.kind = "derived"
     THEN Requalify(ExecuteQuery(source.query, db), source.alias)
     ELSE IF source.name \in DOMAIN db.ctes
     THEN Requalify(db.ctes[source.name], visible)
     ELSE IF source.name \notin DOMAIN db.tables THEN Failed
     ELSE Relation([i \in DOMAIN table.columns |->
                      [table |-> visible, name |-> table.columns[i]]],
                   IndexFilter(table, IF selection = {} THEN <<>>
                                      ELSE IndexPredicates(CHOOSE e \in selection : TRUE)))

\* The columns a hash join compares: ON l = r or r = l, each resolved on its
\* own side.
HashJoinColumns(on, left, right) ==
  LET sides(x, y) == IF ResolvesColumn(left, x) /\ ResolvesColumn(right, y)
                     THEN {<<ResolveColumn(left, x), ResolveColumn(right, y)>>} ELSE {}
      equality == {e \in on : e.kind = "compare" /\ e.op = "="
                               /\ e.left.kind = "column" /\ e.right.kind = "column"}
  IN UNION {IF sides(e.left, e.right) # {} THEN sides(e.left, e.right)
            ELSE sides(e.right, e.left) : e \in equality}

JoinRelations(left, right, join, db) ==
  LET hashed == HashJoinColumns(join.on, left.columns, right.columns)
  IN IF ~left.ok \/ ~right.ok THEN Failed
     ELSE IF hashed # {}
     THEN Relation(left.columns \o right.columns,
                   Combine(left, right, join.type,
                           HashMatches(left, right, CHOOSE h \in hashed : TRUE)))
     ELSE NestedJoin(left, right, join.type,
            [p \in DOMAIN left.rows |-> [q \in DOMAIN right.rows |->
               IF join.on = {} THEN BooleanValue(TRUE)
               ELSE EvalExpr(CHOOSE e \in join.on : TRUE, left.columns \o right.columns,
                             left.rows[p] \o right.rows[q], NoGroup, db)]])

----------------------------------------------------------------------------
(* Projection and grouping *)

WildcardPositions(item, columns) ==
  SelectSeq([i \in DOMAIN columns |-> i],
            LAMBDA i : item.qualifier \in {"", columns[i].table})

ExpressionName(e) ==
  CASE e.kind = "column" -> e.name
    [] e.kind = "aggregate" -> e.function
    [] e.kind = "scalar" -> "subquery"
    [] OTHER -> "expression"

ProjectionColumns(projection, columns) ==
  LET of(item) ==
        IF item.kind = "wildcard"
        THEN LET at == WildcardPositions(item, columns)
             IN [i \in DOMAIN at |-> columns[at[i]]]
        ELSE <<[table |-> IF item.expr.kind = "column" /\ item.alias = ""
                          THEN item.expr.qualifier ELSE "",
                name |-> IF item.alias # "" THEN item.alias
                         ELSE ExpressionName(item.expr)]>>
  IN FoldLeft(LAMBDA s, item : s \o of(item), <<>>, projection)

ProjectRow(projection, columns, row, group, db) ==
  LET of(item) == IF item.kind = "wildcard"
                  THEN LET at == WildcardPositions(item, columns)
                       IN [i \in DOMAIN at |-> row[at[i]]]
                  ELSE <<EvalExpr(item.expr, columns, row, group, db)>>
  IN FoldLeft(LAMBDA s, item : s \o of(item), <<>>, projection)

\* A wildcard that stands for no column is an error.
Projects(projection, columns) ==
  \A i \in DOMAIN projection : projection[i].kind = "wildcard"
                                 => WildcardPositions(projection[i], columns) # <<>>

ProjectQuery(q, source, db) ==
  IF ~Projects(q.projection, source.columns) THEN Failed ELSE
  Relation(ProjectionColumns(q.projection, source.columns),
           [p \in DOMAIN source.rows |->
              ProjectRow(q.projection, source.columns, source.rows[p], NoGroup, db)])

Leader(g, columns) == IF g = <<>> THEN Nulls(Len(columns)) ELSE g[1]

\* having[i] is what HAVING says of group i.
ProjectGroups(q, source, groups, having, db) ==
  LET kept == SelectSeq([i \in DOMAIN groups |-> i], LAMBDA i : Truth(having[i]) = "True")
  IN IF Error \in Range(having) \/ ~Projects(q.projection, source.columns) THEN Failed
     ELSE Relation(ProjectionColumns(q.projection, source.columns),
            [i \in DOMAIN kept |->
               ProjectRow(q.projection, source.columns,
                          Leader(groups[kept[i]], source.columns),
                          Group(groups[kept[i]]), db)])

HavingGroups(q, source, groups, db) ==
  ProjectGroups(q, source, groups, [i \in DOMAIN groups |->
    IF q.having = {} THEN BooleanValue(TRUE)
    ELSE EvalExpr(CHOOSE h \in q.having : TRUE, source.columns,
                  Leader(groups[i], source.columns), Group(groups[i]), db)], db)

KeyedGroups(q, source, keys, db) ==
  IF \E p \in DOMAIN keys : ValueKey(Error) \in Range(keys[p]) THEN Failed
  ELSE HavingGroups(q, source, GroupRows(q, source.rows, keys), db)

AggregateQuery(q, source, db) ==
  KeyedGroups(q, source, [p \in DOMAIN source.rows |->
    RowKey([i \in DOMAIN q.groupBy |->
              EvalExpr(q.groupBy[i], source.columns, source.rows[p], NoGroup, db)])], db)

\* An aggregate in ORDER BY names a column of the result.
OrderKeys(rows, columns, orderBy, db) ==
  LET expr(o) == IF o.expr.kind = "aggregate"
                 THEN [kind |-> "column", qualifier |-> "", name |-> o.expr.function]
                 ELSE o.expr
  IN [p \in DOMAIN rows |-> [i \in DOMAIN orderBy |->
        EvalExpr(expr(orderBy[i]), columns, rows[p], NoGroup, db)]]

WithRelation(db, cte, rel) ==
  LET renamed == IF cte.columns = <<>> THEN rel
                 ELSE [rel EXCEPT !.ok = @ /\ Len(cte.columns) = Len(rel.columns),
                         !.columns = [i \in DOMAIN @ |->
                           [@[i] EXCEPT !.name = cte.columns[i]]]]
  IN [db EXCEPT !.ctes = [n \in DOMAIN @ \union {cte.name} |->
        IF n = cte.name THEN Requalify(renamed, n) ELSE @[n]]]

WithRelations(q, db) ==
  FoldLeft(LAMBDA d, cte : WithRelation(d, cte, ExecuteQuery(cte.query, d)), db, q.ctes)

\* The steps of a query.  Each takes the relation of the one before; an error
\* in one is the error of the query.
JoinedSources(q, db) ==
  FoldLeft(LAMBDA left, join :
             IF ~left.ok THEN left
             ELSE JoinRelations(left, SourceRelation(join.source, {}, db), join, db),
           IF q.from = {} THEN Relation(<<>>, <<<<>>>>)
           ELSE SourceRelation(CHOOSE s \in q.from : TRUE, q.selection, db),
           q.joins)

Filtered(q, rel, db) ==
  KeepRows(rel, [p \in DOMAIN rel.rows |->
    IF q.selection = {} THEN BooleanValue(TRUE)
    ELSE EvalExpr(CHOOSE e \in q.selection : TRUE, rel.columns, rel.rows[p], NoGroup, db)])

\* Rows are put in order before the projection if the source has the columns.
OrderedEarly(q, columns) ==
  /\ ~IsAggregate(q) /\ q.orderBy # <<>>
  /\ \A i \in DOMAIN q.orderBy : ExpressionResolves(q.orderBy[i].expr, columns)

Projected(q, rel, db) ==
  IF ~rel.ok THEN Failed
  ELSE IF IsAggregate(q) THEN AggregateQuery(q, rel, db)
  ELSE ProjectQuery(q, IF OrderedEarly(q, rel.columns)
                       THEN [rel EXCEPT !.rows =
                              SortBy(@, OrderKeys(@, rel.columns, q.orderBy, db),
                                     q.orderBy, FALSE)]
                       ELSE rel, db)

MadeDistinct(q, rel) ==
  IF ~q.distinct THEN rel
  ELSE [rel EXCEPT !.rows = DistinctBy(@, [p \in DOMAIN @ |-> RowKey(@[p])])]

Limited(q, orderBy, rel, db) ==
  IF ~rel.ok \/ \E row \in Range(rel.rows) : Error \in Range(row) THEN Failed
  ELSE [rel EXCEPT !.rows = OrderAndLimit(@, OrderKeys(@, rel.columns, orderBy, db),
                                          orderBy, q.limit, db.ties)]

QueryFrom(q, rel, db) ==
  Limited(q, IF OrderedEarly(q, rel.columns) THEN <<>> ELSE q.orderBy,
          MadeDistinct(q, Projected(q, Filtered(q, rel, db), db)), db)

QueryWith(q, db) ==
  IF \E n \in DOMAIN db.ctes : ~db.ctes[n].ok THEN Failed
  ELSE QueryFrom(q, JoinedSources(q, db), db)

ExecuteQuery(q, outer) == QueryWith(q, WithRelations(q, outer))

----------------------------------------------------------------------------
(* Constant folding *)

RECURSIVE FoldExpr(_)
RECURSIVE OptimizeQuery(_)
FoldExpr(e) ==
  LET l == FoldExpr(e.left)
      r == FoldExpr(e.right)
      x == FoldExpr(e.expr)
  IN CASE e.kind \in {"and", "or", "compare", "arithmetic"} ->
            IF l.kind = "literal" /\ r.kind = "literal" THEN FoldBinary(e, l.value, r.value)
            ELSE [e EXCEPT !.left = l, !.right = r]
       [] e.kind = "unary" ->
            IF x.kind = "literal" /\ (e.op = "not" \/ Numeric(x.value))
            THEN Literal(FoldUnary(e.op, x.value))
            ELSE [e EXCEPT !.expr = x]
       [] e.kind = "isNull" ->
            IF x.kind = "literal" THEN Literal(BooleanValue(IsNull(x.value) # e.negated))
            ELSE [e EXCEPT !.expr = x]
       [] e.kind = "like" ->
            LET p == FoldExpr(e.pattern)
            IN IF x.kind = "literal" /\ p.kind = "literal"
               THEN Literal(TruthValue(LikeTruth(x.value, p.value, e.negated)))
               ELSE [e EXCEPT !.expr = x, !.pattern = p]
       [] e.kind = "in" -> [e EXCEPT !.expr = x,
                                     !.list = [i \in DOMAIN @ |-> FoldExpr(@[i])]]
       [] e.kind = "inSubquery" -> [e EXCEPT !.expr = x, !.query = OptimizeQuery(@)]
       [] e.kind \in {"exists", "scalar"} -> [e EXCEPT !.query = OptimizeQuery(@)]
       [] e.kind = "aggregate" -> [e EXCEPT !.expr = {FoldExpr(y) : y \in @}]
       [] OTHER -> e

OptimizeSource(s) == IF s.kind = "derived" THEN [s EXCEPT !.query = OptimizeQuery(@)] ELSE s

\* Every expression and every nested query is folded; nothing is reordered.
OptimizeQuery(q) ==
  LET fold(es) == {FoldExpr(e) : e \in es}
  IN [q EXCEPT
        !.ctes = [i \in DOMAIN @ |-> [@[i] EXCEPT !.query = OptimizeQuery(@)]],
        !.projection = [i \in DOMAIN @ |-> IF @[i].kind = "expr"
                                           THEN [@[i] EXCEPT !.expr = FoldExpr(@)] ELSE @[i]],
        !.from = {OptimizeSource(s) : s \in @},
        !.joins = [i \in DOMAIN @ |-> [@[i] EXCEPT !.source = OptimizeSource(@),
                                                   !.on = fold(@)]],
        !.selection = fold(@),
        !.groupBy = [i \in DOMAIN @ |-> FoldExpr(@[i])],
        !.having = fold(@),
        !.orderBy = [i \in DOMAIN @ |-> [@[i] EXCEPT !.expr = FoldExpr(@)]]]

----------------------------------------------------------------------------
(* A database that grows and is asked.  ties is how an unstable selection  *)
(* of the least rows falls out among rows that compare equal.              *)

Database(ties) == [tables |-> tables, ctes |-> <<>>, ties |-> ties]

Init ==
  /\ tables = [t \in DOMAIN Schemas |->
                 [columns |-> Schemas[t], rows |-> <<>>, indexed |-> {}]]
  /\ asked = {}
  /\ answer = Failed

TotalRows == FoldLeft(LAMBDA n, t : n + Len(tables[t].rows), 0, SetToSeq(DOMAIN tables))

InsertRow(t, row) ==
  /\ asked = {} /\ TotalRows < MaxTotalRows
  /\ tables' = [tables EXCEPT ![t].rows = Append(@, row)]
  /\ UNCHANGED <<asked, answer>>

IndexColumn(t, c) ==
  /\ asked = {}
  /\ tables' = [tables EXCEPT ![t].indexed = @ \union {c}]
  /\ UNCHANGED <<asked, answer>>

Ask(q, ties) ==
  /\ asked = {}
  /\ asked' = {q}
  /\ answer' = ExecuteQuery(OptimizeQuery(q), Database(ties))
  /\ UNCHANGED tables

Deliver ==
  /\ asked # {}
  /\ asked' = {} /\ answer' = Failed
  /\ UNCHANGED tables

Next ==
  \/ \E t \in DOMAIN Schemas : \E row \in Contents[t] : InsertRow(t, row)
  \/ \E i \in Indexable : IndexColumn(i[1], i[2])
  \/ \E q \in Queries, ties \in BOOLEAN : Ask(q, ties)
  \/ Deliver

Spec == Init /\ [][Next]_vars

----------------------------------------------------------------------------
(* Properties of the answer to the query asked *)

Rows(q) == ExecuteQuery(q, Database(FALSE)).rows
Plain(q) == ~IsAggregate(q) /\ ~q.distinct /\ q.limit = {}
OnTable(q) == q.joins = <<>> /\ \E s \in q.from : s.kind = "table" /\ q.ctes = <<>>

\* The condition of a WHERE is true, false or NULL of each row, and of one of
\* them only: the rows of p, of NOT p and of p IS NULL are together those of
\* the query without WHERE, none lost and none twice (eval_expr,
\* SqlTruth::negate, and the rows an index leaves for p).
ThreeWayPartition ==
  \A q \in asked : (Plain(q) /\ q.selection # {} /\ answer.ok) =>
    LET p == The(q.selection)
        where == <<{[kind |-> "unary", op |-> "not", expr |-> p]},
                   {[kind |-> "isNull", expr |-> p, negated |-> FALSE]}, {}>>
    IN \E rows \in {[i \in 1..3 |-> Rows(OptimizeQuery([q EXCEPT !.selection = where[i]]))]} :
         SameRows(answer.rows \o rows[1] \o rows[2], rows[3])

TruePairs(left, right, on) ==
  {x \in (DOMAIN left.rows) \X (DOMAIN right.rows) : \A e \in on :
     Truth(EvalExpr(e, left.columns \o right.columns,
                    left.rows[x[1]] \o right.rows[x[2]], NoGroup, Database(FALSE))) = "True"}

JoinsAs(rows, sides, join) ==
  JoinRows(rows, sides[1], sides[2], join.type, TruePairs(sides[1], sides[2], join.on))

\* A join, hashed or nested, has a row for every pair its ON is true of, as
\* often as the pair occurs, and one row for every row of the outer side
\* without a partner (join_relations, hash_join).
JoinIsRelational ==
  \A q \in asked : (Plain(q) /\ Len(q.joins) = 1 /\ q.selection = {} /\ answer.ok) =>
    LET sources == <<The(q.from), q.joins[1].source>>
    IN \E sides \in {[i \in 1..2 |-> SourceRelation(sources[i], {}, Database(FALSE))]} :
         JoinsAs(answer.rows, sides, q.joins[1])

\* rows counts the rows of plain, of which the first n columns are the key.
CountsGroups(rows, n, plain) ==
  LET members(row) == {p \in DOMAIN plain : SubSeq(plain[p], 1, n) = SubSeq(row, 1, n)}
  IN /\ \A row \in Range(rows) :
          /\ row[n + 1] = IntegerValue(Cardinality(members(row)))
          /\ row[n + 2] = IntegerValue(Cardinality(
               {p \in members(row) : ~IsNull(plain[p][n + 1])}))
     /\ \A p \in DOMAIN plain :
          Cardinality({g \in DOMAIN rows : p \in members(rows[g])}) = 1
     /\ n = 0 => Len(rows) = 1

\* GROUP BY splits the rows: every row is counted in the group of its key and
\* in no other, COUNT of an expression passes over NULL, and without GROUP BY
\* there is one group even of no rows (aggregate_query, eval_aggregate).  It
\* is about SELECT keys, COUNT( * ), COUNT(x).
GroupingPartitions ==
  \A q \in asked : (IsAggregate(q) /\ q.having = {} /\ q.limit = {} /\ answer.ok) =>
    LET n == Len(q.groupBy)
        x == The(q.projection[n + 2].expr.expr)
        item(e) == [kind |-> "expr", qualifier |-> "", expr |-> e, alias |-> ""]
    IN CountsGroups(answer.rows, n,
         Rows([q EXCEPT !.groupBy = <<>>, !.orderBy = <<>>,
                 !.projection = [i \in 1..n |-> item(q.groupBy[i])] \o <<item(x)>>]))

OrderOf(q, r, s) ==
  LET keys == OrderKeys(<<r, s>>, answer.columns, q.orderBy, Database(FALSE))
  IN CompareKeys(keys[1], keys[2], q.orderBy)

LeastOf(q, kept, n, all) ==
  LET left == {r \in Range(all) : Occurrences(kept, r) < Occurrences(all, r)}
      pairs == {<<kept[i], kept[i + 1]>> : i \in 1..(Len(kept) - 1)}
                 \union Range(kept) \X left
  IN /\ Len(kept) = IF n < Len(all) THEN n ELSE Len(all)
     /\ \A r \in Range(kept) : Occurrences(kept, r) <= Occurrences(all, r)
     /\ \A x \in pairs : OrderOf(q, x[1], x[2]) <= 0

\* ORDER BY with LIMIT n answers n rows (or all, if there are fewer), in
\* order, and no row left out comes before one that is kept, whichever way
\* the unstable selection of the n least rows falls out (execute_query).
TopNKeepsTheLeast ==
  \A q \in asked : (q.orderBy # <<>> /\ q.limit # {} /\ answer.ok) =>
    LeastOf(q, answer.rows, The(q.limit), Rows([q EXCEPT !.orderBy = <<>>, !.limit = {}]))

\* Some row has an integer that a double does not represent.
HoldsRounded ==
  \E t \in DOMAIN tables : \E row \in Range(tables[t].rows) : \E a \in Range(row) :
    a.type = "Integer" /\ a.v \in DOMAIN Rounding

\* x IN (SELECT ...) answers what x IN (...) answers with the values of the
\* subquery written out, although one looks the bits of a double up in a hash
\* set and the other compares value by value, as long as no integer that a
\* double does not represent can meet another integer (eval_expr, in_values,
\* hash_join_key).
InSubqueryIsInList ==
  \A q \in asked : \A e \in q.selection : (e.kind = "inSubquery" /\ answer.ok) =>
    LET values == Rows(e.query)
        list == [i \in DOMAIN values |-> Literal(values[i][1])]
    IN (HoldsRounded => \A i \in DOMAIN values : values[i][1].type # "Integer") =>
         answer.rows = Rows([q EXCEPT !.selection =
                         {[kind |-> "in", expr |-> e.expr, list |-> list,
                           negated |-> e.negated]}])

\* An index never changes an answer: with the indexes and without them the
\* same rows are found (relation_from_table, collect_index_predicates).
IndexedSelectIsScan ==
  \A q \in asked :
    \E ties \in BOOLEAN :
      answer = ExecuteQuery(OptimizeQuery(q), [Database(ties) EXCEPT
                 !.tables = [t \in DOMAIN @ |-> [@[t] EXCEPT !.indexed = {}]]])

\* Somewhere in e, folding makes NULL of an operator on literals to which
\* evaluation gives another value, or an error.
RECURSIVE NullWins(_)
NullWins(e) ==
  LET Operands == IF e.kind \in {"and", "or", "compare", "arithmetic"}
                  THEN <<e.left, e.right>>
                  ELSE IF e.kind \in {"unary", "isNull"} THEN <<e.expr>> ELSE <<>>
  IN \/ \E i \in DOMAIN Operands : NullWins(Operands[i])
     \/ \E folded \in {[i \in DOMAIN Operands |-> FoldExpr(Operands[i])]} :
          /\ DOMAIN folded = 1..2 /\ \A i \in 1..2 : folded[i].kind = "literal"
          /\ Overruled(e, folded[1].value, folded[2].value)


\* LIKE is true exactly of the texts that the pattern can be laid out over:
\* % over any number of characters, _ over one, another character over itself
\* in either case (like_match).
LikeIsWildcardMatch ==
  \A q \in asked : \A e \in q.selection :
    (Plain(q) /\ OnTable(q) /\ e.kind = "like" /\ ~e.negated /\ answer.ok) =>
      LET pattern == Lower(Spelling[e.pattern.value.v])
      IN answer.rows = SelectSeq(tables[The(q.from).name].rows,
           LAMBDA row : ~IsNull(row[1]) /\ Covers(pattern, Lower(Spelling[row[1].v])))
=============================================================================
