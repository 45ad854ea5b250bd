--------------------------- MODULE QueryOperators ---------------------------
(***************************************************************************)
(* What a query does with values and rows once its expressions have been   *)
(* evaluated: the operators of expressions, the LIKE matcher, the filter   *)
(* of an index, WHERE, joins, grouping, ORDER BY and LIMIT, and the        *)
(* folding of operators on literals (sql/executor.rs, sql/planner.rs and   *)
(* sql/types.rs).  SqlQuery evaluates expressions and runs whole queries.  *)
(*                                                                         *)
(* A relation is columns and rows; keys[p], where[p] and on[p][q] are what *)
(* expressions say of row p, or of the rows p and q of two relations.  An  *)
(* error is the value Error.                                               *)
(***************************************************************************)
EXTENDS SqlValues, Sequences, FiniteSets, SequencesExt, Positions

CONSTANT Spelling   \* TEXT's number -> its characters

Error == [type |-> "Error", v |-> 0]

IsError(a) == a.type = "Error"

NoGroup == [some |-> FALSE, rows |-> <<>>]
Group(rows) == [some |-> TRUE, rows |-> rows]

Relation(columns, rows) == [ok |-> TRUE, columns |-> columns, rows |-> rows]
Failed == [ok |-> FALSE, columns |-> <<>>, rows |-> <<>>]

Nulls(n) == [i \in 1..n |-> Null]

----------------------------------------------------------------------------
(* Operators on values *)

Arithmetic(op, a, b) ==
  LET type == IF a.type = "Integer" /\ b.type = "Integer" THEN "Integer" ELSE "Float"
      size(n) == IF n < 0 THEN -n ELSE n
      quotient == LET q == 2 * (size(a.v) \div size(b.v))
                  IN IF (a.v < 0) = (b.v < 0) THEN q ELSE -q
  IN IF op = "/" /\ Numeric(b) /\ b.v = 0 THEN Error
     ELSE IF IsNull(a) \/ IsNull(b) THEN Null
     ELSE IF ~Numeric(a) \/ ~Numeric(b) THEN Error
     ELSE [type |-> type,
           v |-> CASE op = "+" -> a.v + b.v
                   [] op = "-" -> a.v - b.v
                   [] op = "/" -> quotient]

UnaryValue(op, a) ==
  CASE op = "not"                   -> TruthValue(Negate(Truth(a)))
    [] op # "not" /\ IsNull(a)      -> Null
    [] op = "negate" /\ Numeric(a)  -> [a EXCEPT !.v = -a.v]
    [] op = "plus" /\ Numeric(a)    -> a
    [] OTHER                        -> Error

InValues(a, values, negated) ==
  LET found == \E i \in DOMAIN values : CompareSql(a, "=", values[i]) = "True"
      unknown == \E i \in DOMAIN values : CompareSql(a, "=", values[i]) = "Unknown"
      truth == IF IsNull(a) THEN "Unknown"
               ELSE IF found THEN "True"
               ELSE IF unknown THEN "Unknown" ELSE "False"
  IN IF negated THEN Negate(truth) ELSE truth

\* Slip: numbers of different types hash apart.
HashJoinKey_Typed(a) == <<a.type, a.v>>

\* The key under which values are looked up in a hash table: numbers by
\* the bits of the double.
HashJoinKey(a) == IF Numeric(a) THEN <<"number", AsDouble(a)>> ELSE <<a.type, a.v>>

\* Slip: a NULL among the values is forgotten.
InSubqueryTruth_NoNull(a, keys, hasNull) ==
  IF IsNull(a) THEN "Unknown" ELSE FromBool(HashJoinKey(a) \in keys)

InSubqueryTruth(a, keys, hasNull) ==
  IF IsNull(a) THEN "Unknown"
  ELSE IF HashJoinKey(a) \in keys THEN "True"
  ELSE IF hasNull THEN "Unknown" ELSE "False"

\* DISTINCT and GROUP BY tell values apart by type and value.
ValueKey(a) == <<a.type, a.v>>
RowKey(row) == [i \in DOMAIN row |-> ValueKey(row[i])]

\* The elements of seq whose key, keys[i], is a new one.
DistinctBy(seq, keys) ==
  At(seq, {i \in DOMAIN seq : \A j \in 1..(i - 1) : keys[j] # keys[i]})

\* MIN takes the first of equal values, MAX the last.
LeastValue(values) ==
  values[CHOOSE i \in DOMAIN values : \A j \in DOMAIN values :
           values[j].v > values[i].v \/ (values[j].v = values[i].v /\ j >= i)]

GreatestValue(values) ==
  values[CHOOSE i \in DOMAIN values : \A j \in DOMAIN values :
           values[j].v < values[i].v \/ (values[j].v = values[i].v /\ j <= i)]

\* Slip: NULL counts.
AggregateValue_CountNull(function, raw, distinct) ==
  IntegerValue(Len(raw))

AggregateValue(function, raw, distinct) ==
  LET values == SelectSeq(IF distinct THEN DistinctBy(raw, RowKey(raw)) ELSE raw,
                          LAMBDA a : ~IsNull(a))
      total == FoldLeft(LAMBDA s, a : s + a.v, 0, values)
      whole == \A i \in DOMAIN values : values[i].type = "Integer"
  IN CASE function = "count" -> IntegerValue(Len(values))
       [] function # "count" /\ values = <<>> -> Null
       [] function = "sum" /\ values # <<>> ->
            IF \E i \in DOMAIN values : ~Numeric(values[i]) THEN Error
            ELSE [type |-> IF whole THEN "Integer" ELSE "Float", v |-> total]
       [] function = "min" /\ values # <<>> -> LeastValue(values)
       [] function = "max" /\ values # <<>> -> GreatestValue(values)

----------------------------------------------------------------------------
(* LIKE: the table of the dynamic program, entry by entry *)

\* The wildcards.
AnyRun == "%"
AnyChar == "_"

\* Slip: % matches at most one character.
LikeStep_PercentOne(dp, text, pattern, i, j) ==
  CASE pattern[j] = AnyRun  -> dp[<<i, j - 1>>] \/ dp[<<i - 1, j - 1>>]
    [] pattern[j] = AnyChar -> dp[<<i - 1, j - 1>>]
    [] OTHER                -> pattern[j] = text[i] /\ dp[<<i - 1, j - 1>>]

LikeStep(dp, text, pattern, i, j) ==
  CASE pattern[j] = AnyRun  -> dp[<<i, j - 1>>] \/ dp[<<i - 1, j>>]
    [] pattern[j] = AnyChar -> dp[<<i - 1, j - 1>>]
    [] OTHER                -> pattern[j] = text[i] /\ dp[<<i - 1, j - 1>>]

LowerCase == [A |-> "a", B |-> "b"]
Lower(chars) == [i \in DOMAIN chars |-> IF chars[i] \in DOMAIN LowerCase
                                        THEN LowerCase[chars[i]] ELSE chars[i]]

\* The entry of the first i characters of the text and the first j of the
\* pattern.
LikeEntry(dp, text, pattern, i, j) ==
  IF j = 0 THEN i = 0
  ELSE IF i = 0 THEN pattern[j] = AnyRun /\ dp[<<0, j - 1>>]
  ELSE LikeStep(dp, text, pattern, i, j)

LikeMatch(text, pattern) ==
  LET dp[c \in (0..Len(text)) \X (0..Len(pattern))] ==
        LikeEntry(dp, Lower(text), Lower(pattern), c[1], c[2])
  IN dp[<<Len(text), Len(pattern)>>]

LikeTruth(a, pattern, negated) ==
  LET truth == IF IsNull(a) \/ IsNull(pattern) THEN "Unknown"
               ELSE FromBool(/\ a.type = "Text" /\ pattern.type = "Text"
                             /\ LikeMatch(Spelling[a.v], Spelling[pattern.v]))
  IN IF negated THEN Negate(truth) ELSE truth

----------------------------------------------------------------------------
(* What an expression makes of the values of its parts *)

\* What an expression makes of the values of its parts.  AND and OR look at
\* the right side only when the left one does not decide.
Junction(stop, l, r, both) ==
  IF IsError(l) THEN Error
  ELSE IF Truth(l) = stop THEN TruthValue(stop)
  ELSE IF IsError(r) THEN Error
  ELSE TruthValue(both)

BinaryValue(e, l, r) ==
  CASE e.kind = "and" -> Junction("False", l, r, AndTruth(Truth(l), Truth(r)))
    [] e.kind = "or" -> Junction("True", l, r, OrTruth(Truth(l), Truth(r)))
    [] OTHER -> IF IsError(l) \/ IsError(r) THEN Error
                ELSE IF e.kind = "compare" THEN TruthValue(CompareSql(l, e.op, r))
                ELSE Arithmetic(e.op, l, r)

OperandValue(e, a) ==
  IF IsError(a) THEN Error
  ELSE IF e.kind = "unary" THEN UnaryValue(e.op, a)
  ELSE BooleanValue(IsNull(a) # e.negated)

InListValue(e, a, values) ==
  IF IsError(a) \/ Error \in Range(values) THEN Error
  ELSE TruthValue(InValues(a, values, e.negated))

LikeValue(e, a, pattern) ==
  IF IsError(a) \/ IsError(pattern) THEN Error
  ELSE TruthValue(LikeTruth(a, pattern, e.negated))

AggregateOf(e, group, values) ==
  IF ~group.some \/ Error \in Range(values) THEN Error
  ELSE AggregateValue(e.function, values, e.distinct)

EvalSubquery(e, a, sub) ==
  LET first == [i \in DOMAIN sub.rows |-> sub.rows[i][1]]
      keys == {HashJoinKey(x) : x \in {y \in Range(first) : ~IsNull(y)}}
      truth == InSubqueryTruth(a, keys, Null \in Range(first))
  IN IF ~sub.ok \/ IsError(a) THEN Error
     ELSE IF e.kind = "exists" THEN BooleanValue((sub.rows # <<>>) # e.negated)
     ELSE IF Len(sub.columns) # 1 THEN Error
     ELSE IF e.kind = "inSubquery"
          THEN TruthValue(IF e.negated THEN Negate(truth) ELSE truth)
     ELSE IF sub.rows = <<>> THEN Null
     ELSE IF Len(sub.rows) = 1 THEN first[1] ELSE Error

----------------------------------------------------------------------------
(* The filter of an index *)

\* The rows an index leaves for the comparisons of columns with literals that
\* a condition is the conjunction of: the first one on an indexed column
\* decides, unless it is <>.  An index on an equality is preferred.
IndexFilter(table, predicates) ==
  LET named(c) == {i \in DOMAIN predicates : predicates[i].name = c}
      first(c) == predicates[CHOOSE i \in named(c) : \A j \in named(c) : i <= j]
      usable == {i \in DOMAIN table.columns :
                   LET c == table.columns[i]
                   IN c \in table.indexed /\ named(c) # {} /\ first(c).op # "<>"}
      equal == {i \in usable : first(table.columns[i]).op = "="}
      used == IF equal # {} THEN CHOOSE i \in equal : TRUE ELSE CHOOSE i \in usable : TRUE
      p == first(table.columns[used])
  IN IF usable = {} THEN table.rows
     ELSE At(table.rows, {i \in DOMAIN table.rows :
                            CompareKeyPart(table.rows[i][used], p.op, p.value)})

----------------------------------------------------------------------------
(* WHERE *)

\* where[p] is what WHERE says of row p.
KeepRows(rel, where) ==
  IF ~rel.ok \/ Error \in Range(where) THEN Failed
  ELSE [rel EXCEPT !.rows = At(@, {p \in DOMAIN @ : Truth(where[p]) = "True"})]

----------------------------------------------------------------------------
(* Joins *)

\* Left row p with the right rows it joins, in their order, or alone:
\* matches[p][q] says whether left row p joins right row q.
RowsOfLeft(left, right, type, matches, p) ==
  LET hits == {q \in DOMAIN right.rows : matches[p][q]}
  IN IF hits = {} /\ type = "left" THEN <<left.rows[p] \o Nulls(Len(right.columns))>>
     ELSE At([q \in DOMAIN right.rows |-> left.rows[p] \o right.rows[q]], hits)

\* The right rows without a partner.
RowsOfRight(left, right, type, matches) ==
  At([q \in DOMAIN right.rows |-> Nulls(Len(left.columns)) \o right.rows[q]],
     {q \in DOMAIN right.rows : type = "right"
        /\ \A p \in DOMAIN left.rows : ~matches[p][q]})

\* The loop over the left rows, then the right rows left over.
Combine(left, right, type, matches) ==
  LET upto[p \in 0..Len(left.rows)] ==
        IF p = 0 THEN <<>> ELSE upto[p - 1] \o RowsOfLeft(left, right, type, matches, p)
  IN upto[Len(left.rows)] \o RowsOfRight(left, right, type, matches)

\* Hash join: the pairs of rows with equal keys in the columns h[1] and h[2].
HashMatches(left, right, h) ==
  LET looked(a, b) == /\ ~IsNull(a) /\ ~IsNull(b)
                      /\ HashJoinKey(a) = HashJoinKey(b)
                      /\ CompareSql(a, "=", b) = "True"
  IN [p \in DOMAIN left.rows |-> [q \in DOMAIN right.rows |->
        looked(left.rows[p][h[1]], right.rows[q][h[2]])]]

\* Nested loops: on[p][q] is what ON says of a pair of rows.
NestedJoin(left, right, type, on) ==
  IF \E p \in DOMAIN on : Error \in Range(on[p]) THEN Failed
  ELSE Relation(left.columns \o right.columns,
                Combine(left, right, type, [p \in DOMAIN on |-> [q \in DOMAIN on[p] |->
                                              Truth(on[p][q]) = "True"]]))

----------------------------------------------------------------------------
(* Groups *)

\* Groups come in the order of their keys' texts, here the order of first
\* appearance; without GROUP BY no rows are one empty group.  keys[p] is the
\* key of row p.
GroupRows(q, rows, keys) ==
  LET each == DistinctBy(keys, keys)
      members(k) == At(rows, {p \in DOMAIN rows : keys[p] = k})
  IN IF rows = <<>> /\ q.groupBy = <<>> THEN <<<<>>>>
     ELSE [i \in DOMAIN each |-> members(each[i])]

----------------------------------------------------------------------------
(* ORDER BY: NULL first, reversed for DESC.  Values that do not compare    *)
(* count as equal, and so do rows whose order cannot be computed.          *)

CompareOrder(a, b) ==
  IF IsNull(a) /\ IsNull(b) THEN 0
  ELSE IF IsNull(a) THEN -1
  ELSE IF IsNull(b) THEN 1
  ELSE IF ~Comparable(a, b) THEN 0
  ELSE IF Against(a, b) < Against(b, a) THEN -1
  ELSE IF Against(a, b) > Against(b, a) THEN 1 ELSE 0

CompareKeys(ks, ls, orderBy) ==
  LET telling == {i \in DOMAIN orderBy : \/ Error \in {ks[i], ls[i]}
                                         \/ CompareOrder(ks[i], ls[i]) # 0}
      i == CHOOSE k \in telling : \A m \in telling : k <= m
  IN IF telling = {} \/ Error \in {ks[i], ls[i]} THEN 0
     ELSE IF orderBy[i].descending THEN -CompareOrder(ks[i], ls[i])
     ELSE CompareOrder(ks[i], ls[i])

\* rows in the order of their keys; rows with equal keys keep their order, or
\* are reversed when the sort is not stable and ties falls that way.
SortBy(rows, keys, orderBy, reversed) ==
  LET before(p, q) == LET c == CompareKeys(keys[p], keys[q], orderBy)
                      IN c < 0 \/ (c = 0 /\ IF reversed THEN p > q ELSE p < q)
      place(p) == 1 + Cardinality({q \in DOMAIN rows : before(q, p)})
  IN [i \in DOMAIN rows |-> rows[CHOOSE p \in DOMAIN rows : place(p) = i]]

Truncate(rows, limit) == IF limit = {} THEN rows
                         ELSE LET n == CHOOSE l \in limit : TRUE
                              IN SubSeq(rows, 1, IF n < Len(rows) THEN n ELSE Len(rows))

\* Slip: the rows are cut before they are ordered.
OrderAndLimit_CutFirst(rows, keys, orderBy, limit, reversed) ==
  LET cut == Truncate(rows, limit)
  IN SortBy(cut, SubSeq(keys, 1, Len(cut)), orderBy, FALSE)

\* With a limit the smallest rows are selected and then sorted.  The selection
\* is not stable; here it leaves equal rows in one of two orders.
OrderAndLimit(rows, keys, orderBy, limit, reversed) ==
  IF orderBy = <<>> THEN Truncate(rows, limit)
  ELSE Truncate(SortBy(rows, keys, orderBy,
                       reversed /\ \E n \in limit : n < Len(rows)), limit)

----------------------------------------------------------------------------
(* Folding of operators on literals *)

Literal(a) == [kind |-> "literal", value |-> a]

\* NULL on either side makes NULL, AND and OR included.
FoldBinary(e, a, b) ==
  IF IsNull(a) \/ IsNull(b) THEN Literal(Null)
  ELSE CASE e.kind = "compare" -> Literal(TruthValue(CompareSql(a, e.op, b)))
         [] e.kind = "and" -> Literal(TruthValue(AndTruth(Truth(a), Truth(b))))
         [] e.kind = "or" -> Literal(TruthValue(OrTruth(Truth(a), Truth(b))))
         [] e.kind = "arithmetic" -> IF IsError(Arithmetic(e.op, a, b))
                                     THEN [e EXCEPT !.left = Literal(a),
                                                    !.right = Literal(b)]
                                     ELSE Literal(Arithmetic(e.op, a, b))


FoldUnary(op, a) == UnaryValue(op, a)

----------------------------------------------------------------------------
(* The definitions the operators stand for *)

The(S) == CHOOSE x \in S : TRUE

\* No two integers meet of which a double represents only one, or neither.
Unambiguous(a, values) ==
  \A b \in values : (a.type = "Integer" /\ b.type = "Integer") =>
    a.v \notin DOMAIN Rounding /\ b.v \notin DOMAIN Rounding

\* A NULL operand that evaluation lets the other one overrule.
Overruled(e, a, b) ==
  /\ IsNull(a) \/ IsNull(b)
  /\ \/ e.kind = "and" /\ "False" \in {Truth(a), Truth(b)}
     \/ e.kind = "or" /\ "True" \in {Truth(a), Truth(b)}
     \/ e.kind = "arithmetic" /\ e.op = "/" /\ Numeric(b) /\ b.v = 0

Occurrences(s, x) == Cardinality({i \in DOMAIN s : s[i] = x})
SameRows(r, s) == \A x \in Range(r) \union Range(s) : Occurrences(r, x) = Occurrences(s, x)

\* pattern can be laid out over text: end[j] is where its first j characters
\* end, % over any number of characters, _ over one, another one over itself.
Covers(pattern, text) ==
  LET lies(end, j) == IF pattern[j] = AnyRun THEN end[j - 1] <= end[j]
                      ELSE /\ end[j] = end[j - 1] + 1
                           /\ pattern[j] \in {AnyChar, text[end[j]]}
  IN \E end \in [0..Len(pattern) -> 0..Len(text)] :
       /\ end[0] = 0 /\ end[Len(pattern)] = Len(text)
       /\ \A j \in 1..Len(pattern) : lies(end, j)

\* rows are those of a join of left and right: pairs are the positions ON is
\* true of.
JoinRows(rows, left, right, type, pairs) ==
  LET loneLeft == {i \in DOMAIN left.rows : type = "left"
                     /\ \A j \in DOMAIN right.rows : <<i, j>> \notin pairs}
      loneRight == {j \in DOMAIN right.rows : type = "right"
                      /\ \A i \in DOMAIN left.rows : <<i, j>> \notin pairs}
  IN /\ Len(rows) = Cardinality(pairs) + Cardinality(loneLeft) + Cardinality(loneRight)
     /\ \A row \in Range(rows) : Occurrences(rows, row) =
          Cardinality({x \in pairs : left.rows[x[1]] \o right.rows[x[2]] = row})
          + Cardinality({i \in loneLeft :
                           left.rows[i] \o Nulls(Len(right.columns)) = row})
          + Cardinality({j \in loneRight :
                           Nulls(Len(left.columns)) \o right.rows[j] = row})
=============================================================================
