----------------------------- MODULE MCSqlQuery -----------------------------
(* Tables t(a INTEGER, b INTEGER), u(c FLOAT) and w(s TEXT), small queries *)
(* over them, and, for the run with indexes of one name on both sides of a *)
(* join, a table x(a INTEGER).                                             *)
EXTENDS SqlQuery

One == IntegerValue(1)
Two == IntegerValue(2)

(* Nine is the first integer that the doubles of this instance, of three   *)
(* bits, do not represent.  It stands for 9007199254740993.                *)
Eight == IntegerValue(8)
Nine == IntegerValue(9)
MCRounding == (Nine.v :> Eight.v)

MCSchemas == [t |-> <<"a", "b">>, u |-> <<"c">>, w |-> <<"s">>]
MCContents == [t |-> {Null, One, Two, Nine} \X {Null, One},
               u |-> {<<Null>>, <<FloatValue(2)>>, <<FloatValue(3)>>, <<FloatValue(Eight.v)>>},
               w |-> {<<TextValue(n)>> : n \in 2..4}]
MCIndexable == {<<"t", "a">>}
MCSpelling == [n \in 0..9 |->
  <<<<>>, <<"a">>, <<"a", "B">>, <<"b", "a", "b">>, <<"a", "a", "b", "b">>,
    <<"%">>, <<"_", "b">>, <<"A", "%", "b">>, <<"%", "a", "_", "%">>,
    <<"%", "b", "b", "%">>>>[n + 1]]

----------------------------------------------------------------------------
(* Expressions and queries *)

Lit(a) == Literal(a)
Col(qualifier, name) == [kind |-> "column", qualifier |-> qualifier, name |-> name]
Cmp(l, op, r) == [kind |-> "compare", op |-> op, left |-> l, right |-> r]
And(l, r) == [kind |-> "and", left |-> l, right |-> r]
Or(l, r) == [kind |-> "or", left |-> l, right |-> r]
Arith(l, op, r) == [kind |-> "arithmetic", op |-> op, left |-> l, right |-> r]
Not(e) == [kind |-> "unary", op |-> "not", expr |-> e]
Minus(e) == [kind |-> "unary", op |-> "negate", expr |-> e]
IsNullTest(e, negated) == [kind |-> "isNull", expr |-> e, negated |-> negated]
InList(e, list, negated) == [kind |-> "in", expr |-> e, list |-> list, negated |-> negated]
InQuery(e, q, negated) == [kind |-> "inSubquery", expr |-> e, query |-> q,
                           negated |-> negated]
Exists(q, negated) == [kind |-> "exists", query |-> q, negated |-> negated]
Scalar(q) == [kind |-> "scalar", query |-> q]
Like(e, n, negated) == [kind |-> "like", expr |-> e, pattern |-> Lit(TextValue(n)),
                        negated |-> negated]
Agg(function, e, distinct) == [kind |-> "aggregate", function |-> function,
                               expr |-> e, distinct |-> distinct]

Item(e) == [kind |-> "expr", qualifier |-> "", expr |-> e, alias |-> ""]
As(e, alias) == [Item(e) EXCEPT !.alias = alias]
Star(qualifier) == [kind |-> "wildcard", qualifier |-> qualifier, expr |-> Lit(Null),
                    alias |-> ""]
TableSource(name) == [kind |-> "table", name |-> name, alias |-> "", query |-> <<>>]
Derived(q, alias) == [kind |-> "derived", name |-> "", alias |-> alias, query |-> q]

Select(items, name) ==
  [ctes |-> <<>>, from |-> {TableSource(name)}, joins |-> <<>>, selection |-> {},
   groupBy |-> <<>>, having |-> {}, projection |-> items, distinct |-> FALSE,
   orderBy |-> <<>>, limit |-> {}]
Where(q, e) == [q EXCEPT !.selection = {e}]
Join(q, name, type, on) ==
  [q EXCEPT !.joins = <<[source |-> TableSource(name), on |-> on, type |-> type]>>]
GroupBy(q, keys) == [q EXCEPT !.groupBy = keys]
OrderBy(q, e, descending, limit) ==
  [q EXCEPT !.orderBy = <<[expr |-> e, descending |-> descending]>>, !.limit = limit]

A == Col("", "a")
B == Col("t", "b")
AllT == Select(<<Star("")>>, "t")
CountAll == Agg("count", {}, FALSE)
FromU == Select(<<Item(Col("u", "c"))>>, "u")

Predicates ==
  { Cmp(Lit(Two), ">", A),
    And(Cmp(A, "=", Lit(One)), Cmp(B, "<>", Lit(Null))),
    And(Cmp(A, ">=", Lit(One)), Or(Cmp(A, ">", B), IsNullTest(B, FALSE))),
    Not(Cmp(Arith(A, "-", B), "=", Minus(Minus(Lit(One))))),
    Cmp(Arith(Lit(One), "/", Arith(A, "-", B)), "=", Lit(One)),
    InList(A, <<B, Lit(FloatValue(4))>>, TRUE),
    InQuery(A, FromU, FALSE),
    InQuery(A, FromU, TRUE),
    InQuery(A, Select(<<Item(B)>>, "t"), TRUE),
    Exists(Where(FromU, Cmp(Col("", "c"), ">", Lit(One))), TRUE),
    Cmp(A, "=", Scalar(FromU)),
    Not(Cmp(Lit(One), "=", Lit(Null))),
    Not(And(Cmp(Lit(One), "=", Lit(Null)), Cmp(Lit(One), "=", Lit(Two)))),
    Cmp(Arith(Lit(Null), "/", Lit(IntegerValue(0))), "=", A),
    Cmp(A, "<", Arith(Lit(One), "+", Lit(FloatValue(1)))) }

Joins ==
  { Join(AllT, "u", "left", {Cmp(A, "=", Col("", "c"))}),
    Join(AllT, "u", "right", {Cmp(Col("u", "c"), "=", Col("t", "a"))}),
    Join(AllT, "u", "inner", {Cmp(A, "<", Col("", "c"))}),
    Join(AllT, "u", "right", {Or(Cmp(A, "<", Col("", "c")), Cmp(B, "=", Lit(One)))}),
    Join(AllT, "u", "inner", {}),
    Where(Join(AllT, "u", "right", {Cmp(A, "=", Col("", "c"))}),
          Cmp(A, "=", Lit(One))) }

Groups ==
  { GroupBy(Select(<<Item(B), Item(CountAll), Item(Agg("count", {A}, FALSE))>>, "t"), <<B>>),
    Select(<<Item(CountAll), Item(Agg("count", {A}, FALSE))>>, "t"),
    Where(Select(<<Item(CountAll), Item(Agg("count", {B}, FALSE))>>, "t"),
          Cmp(A, "=", Lit(One))),
    [GroupBy(Select(<<Item(A), Item(Agg("sum", {B}, TRUE)), Item(Agg("min", {B}, FALSE))>>,
                    "t"), <<A>>) EXCEPT !.having = {Cmp(Agg("max", {B}, FALSE), "=", Lit(One))}] }

Orders ==
  { OrderBy(Select(<<As(A, "x"), Item(B)>>, "t"), Col("", "x"), TRUE, {1}),
    OrderBy(AllT, A, FALSE, {2}),
    OrderBy(GroupBy(Select(<<Item(A), Item(CountAll)>>, "t"), <<A>>), CountAll, TRUE, {1}) }

Others ==
  { [AllT EXCEPT !.distinct = TRUE, !.from = {Derived(Select(<<Item(A)>>, "t"), "d")}],
    [Select(<<Star("n")>>, "n") EXCEPT
       !.ctes = <<[name |-> "n", columns |-> <<"k">>,
                   query |-> Where(Select(<<Item(A)>>, "t"), Cmp(A, ">", Minus(Lit(One))))]>>],
    [Select(<<Item(Arith(Lit(One), "+", Lit(One)))>>, "t") EXCEPT !.from = {}] }

LikeQueries ==
  {Where(Select(<<Star("")>>, "w"), Like(Col("", "s"), n, FALSE)) : n \in 5..9}

MCQueries == {Where(AllT, p) : p \in Predicates} \union Joins \union Groups
             \union Orders \union Others \union LikeQueries

----------------------------------------------------------------------------
(* One name on both sides of a join *)

TwinSchemas == [t |-> <<"a", "b">>, x |-> <<"a">>]
TwinContents == [t |-> {<<One, One>>, <<Two, One>>}, x |-> {<<One>>}]
TwinQueries ==
  {Where(Join(AllT, "x", "inner", {}), Cmp(Col("x", "a"), "=", Lit(One)))}

=============================================================================
