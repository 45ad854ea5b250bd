------------------------ MODULE QueryOperatorsProofs ------------------------
(***************************************************************************)
(* The operators of the query executor compute what they stand for: key    *)
(* sets, joins and the hash join, the table of LIKE, WHERE, the filter of  *)
(* an index, groups, the partial sort and folded literals, for all values  *)
(* and rows.                                                               *)
(***************************************************************************)
EXTENDS QueryOperators, Induction

-----------------------------------------------------------------------------
(* Values                                                                   *)

(* A value is NULL, or has a type and a number.                             *)
LEMMA ValueFacts ==
  ASSUME NEW a \in SqlValue
  PROVE  /\ a.type \in DataType \union {"Null"} /\ a.v \in Int
         /\ a = [type |-> a.type, v |-> a.v]
         /\ IsNull(a) <=> a = Null
         /\ ~IsError(a) /\ a # Error
  BY DEF SqlValue, DataType, Null, IsNull, IsError, Error

(* What CompareSql says of values that are not NULL.                        *)
LEMMA EqualMeans ==
  ASSUME NEW a \in SqlValue, NEW b \in SqlValue, ~IsNull(a), ~IsNull(b)
  PROVE  CompareSql(a, "=", b) = "True"
           <=> Comparable(a, b) /\ Against(a, b) = Against(b, a)
  BY DEF CompareSql, FromBool, Ordered

(* Values that SQL calls equal have one hash key.                           *)
LEMMA EqualKeys ==
  ASSUME NEW a \in SqlValue, NEW b \in SqlValue, ~IsNull(a), ~IsNull(b),
         CompareSql(a, "=", b) = "True"
  PROVE  HashJoinKey(a) = HashJoinKey(b)
<1>1. Comparable(a, b) /\ Against(a, b) = Against(b, a)
  BY EqualMeans
<1>2. CASE a.type = b.type
  <2>1. a.v = b.v
    BY <1>1, <1>2 DEF Against
  <2>2. a = b
    BY <1>2, <2>1, ValueFacts
  <2> QED  BY <2>2
<1>3. CASE a.type # b.type
  BY <1>1, <1>3 DEF Against, Comparable, HashJoinKey
<1> QED  BY <1>2, <1>3

(* Two values that are not NULL have one hash key exactly if SQL calls them *)
(* equal, unless they are integers of which one is rounded.                 *)
LEMMA SameKey ==
  ASSUME NEW a \in SqlValue, NEW b \in SqlValue, ~IsNull(a), ~IsNull(b),
         Unambiguous(a, {b})
  PROVE  HashJoinKey(a) = HashJoinKey(b) <=> CompareSql(a, "=", b) = "True"
<1> SUFFICES ASSUME HashJoinKey(a) = HashJoinKey(b)
             PROVE  CompareSql(a, "=", b) = "True"
  BY EqualKeys
<1>1. a.type \in DataType /\ b.type \in DataType
  BY ValueFacts DEF IsNull
<1>2. Comparable(a, b)
  BY <1>1 DEF HashJoinKey, Comparable, Numeric, DataType
<1>3. Against(a, b) = Against(b, a)
  <2>1. CASE a.type # b.type
    BY <1>2, <2>1 DEF Against, HashJoinKey, Comparable
  <2>2. CASE a.type = b.type /\ a.type = "Integer"
    BY <2>2 DEF Against, HashJoinKey, Numeric, AsDouble, Unambiguous
  <2>3. CASE a.type = b.type /\ a.type # "Integer"
    BY <2>3 DEF Against, HashJoinKey, AsDouble
  <2> QED  BY <2>1, <2>2, <2>3
<1> QED  BY <1>2, <1>3, EqualMeans

(* x IN (SELECT ...) over the set of hash keys of the subquery's values     *)
(* answers what x IN (list) answers over the list of the values, NULLs,     *)
(* integers and floats among them, negated or not.  The keys are doubles:   *)
(* an integer that no double represents may meet floats, which compare as   *)
(* doubles in the list too, but no other integer (eval_expr, in_values,     *)
(* hash_join_key).                                                          *)
THEOREM KeySetIsList ==
  ASSUME NEW e, e.kind = "inSubquery", e.negated \in BOOLEAN, NEW a \in SqlValue,
         NEW sub, sub.ok, Len(sub.columns) = 1, IsSeq(sub.rows),
         \A i \in DOMAIN sub.rows : sub.rows[i][1] \in SqlValue,
         Unambiguous(a, {sub.rows[i][1] : i \in DOMAIN sub.rows})
  PROVE  EvalSubquery(e, a, sub) = InListValue(e, a, [i \in DOMAIN sub.rows |-> sub.rows[i][1]])
<1> DEFINE first == [i \in DOMAIN sub.rows |-> sub.rows[i][1]]
           keys == {HashJoinKey(x) : x \in {y \in Range(first) : ~IsNull(y)}}
           truth == InSubqueryTruth(a, keys, Null \in Range(first))
<1>1. /\ DOMAIN first = DOMAIN sub.rows
      /\ \A i \in DOMAIN first : first[i] \in SqlValue /\ Unambiguous(a, {first[i]})
  BY DEF Unambiguous
<1> HIDE DEF first
<1>2. Range(first) = {first[i] : i \in DOMAIN first}
  BY DEF Range
<1>3. Error \notin Range(first) /\ ~IsError(a)
  BY <1>1, <1>2, ValueFacts
<1>4. ASSUME ~IsNull(a)
      PROVE  HashJoinKey(a) \in keys
               <=> \E i \in DOMAIN first : CompareSql(a, "=", first[i]) = "True"
  <2>1. HashJoinKey(a) \in keys
          <=> \E i \in DOMAIN first : ~IsNull(first[i]) /\ HashJoinKey(a) = HashJoinKey(first[i])
    BY <1>2
  <2>2. ASSUME NEW i \in DOMAIN first
        PROVE  (~IsNull(first[i]) /\ HashJoinKey(a) = HashJoinKey(first[i]))
                 <=> CompareSql(a, "=", first[i]) = "True"
    <3>1. CASE IsNull(first[i])
      BY <3>1 DEF CompareSql
    <3>2. CASE ~IsNull(first[i])
      BY <3>2, <1>1, <1>4, SameKey
    <3> QED  BY <3>1, <3>2
  <2> QED  BY <2>1, <2>2
<1>5. ASSUME ~IsNull(a)
      PROVE  Null \in Range(first)
               <=> \E i \in DOMAIN first : CompareSql(a, "=", first[i]) = "Unknown"
  BY <1>1, <1>2, <1>5, ValueFacts DEF CompareSql, FromBool
<1>6. truth = InValues(a, first, FALSE)
  <2>1. CASE IsNull(a)
    BY <2>1 DEF InSubqueryTruth, InValues
  <2>2. CASE ~IsNull(a)
    <3> HIDE DEF keys
    <3> QED  BY <2>2, <1>4, <1>5 DEF InSubqueryTruth, InValues
  <2> QED  BY <2>1, <2>2
<1>7. (IF e.negated THEN Negate(truth) ELSE truth) = InValues(a, first, e.negated)
  BY <1>6 DEF InValues
<1>8. EvalSubquery(e, a, sub) = TruthValue(IF e.negated THEN Negate(truth) ELSE truth)
  BY <1>3 DEF EvalSubquery, first, keys, truth
<1>9. InListValue(e, a, first) = TruthValue(InValues(a, first, e.negated))
  BY <1>3 DEF InListValue
<1> QED  BY <1>7, <1>8, <1>9 DEF first

(* A hash join gives the relation that nested loops give with the           *)
(* comparison l = r evaluated for every pair of rows (hash_join,            *)
(* join_relations).                                                         *)
THEOREM HashJoinIsNested ==
  ASSUME NEW left, NEW right, NEW type, NEW h, NEW e, e.kind = "compare", e.op = "=",
         \A p \in DOMAIN left.rows : left.rows[p][h[1]] \in SqlValue,
         \A q \in DOMAIN right.rows : right.rows[q][h[2]] \in SqlValue
  PROVE  Relation(left.columns \o right.columns,
                  Combine(left, right, type, HashMatches(left, right, h)))
           = NestedJoin(left, right, type,
               [p \in DOMAIN left.rows |-> [q \in DOMAIN right.rows |->
                  BinaryValue(e, left.rows[p][h[1]], right.rows[q][h[2]])]])
<1> DEFINE on == [p \in DOMAIN left.rows |-> [q \in DOMAIN right.rows |->
                    BinaryValue(e, left.rows[p][h[1]], right.rows[q][h[2]])]]
           told == [p \in DOMAIN on |-> [q \in DOMAIN on[p] |-> Truth(on[p][q]) = "True"]]
<1>1. ASSUME NEW a \in SqlValue, NEW b \in SqlValue
      PROVE  /\ BinaryValue(e, a, b) # Error
             /\ Truth(BinaryValue(e, a, b)) = "True" <=> CompareSql(a, "=", b) = "True"
             /\ (/\ ~IsNull(a) /\ ~IsNull(b)
                 /\ HashJoinKey(a) = HashJoinKey(b) /\ CompareSql(a, "=", b) = "True")
                  <=> CompareSql(a, "=", b) = "True"
  <2>1. BinaryValue(e, a, b) = TruthValue(CompareSql(a, "=", b))
    BY ValueFacts DEF BinaryValue
  <2>2. CompareSql(a, "=", b) \in SqlTruth
    BY DEF CompareSql, FromBool, SqlTruth
  <2>3. \A t \in SqlTruth : TruthValue(t) # Error /\ Truth(TruthValue(t)) = t
    BY DEF SqlTruth, TruthValue, Truth, Null, BooleanValue, IsNull, FromBool, Error
  <2>4. CompareSql(a, "=", b) = "True" => ~IsNull(a) /\ ~IsNull(b)
    BY DEF CompareSql
  <2> QED  BY <2>1, <2>2, <2>3, <2>4, EqualKeys
<1>2. \A p \in DOMAIN on : Error \notin Range(on[p])
  BY <1>1 DEF Range
<1>3. told = HashMatches(left, right, h)
  BY <1>1 DEF HashMatches
<1> QED  BY <1>2, <1>3 DEF NestedJoin


-----------------------------------------------------------------------------
(* LIKE                                                                     *)

(* One character of the pattern, the j-th, lies over the text from end[j-1] *)
(* to end[j].                                                               *)
Lies(t, p, end, j) ==
  IF p[j] = AnyRun THEN end[j - 1] <= end[j]
  ELSE end[j] = end[j - 1] + 1 /\ p[j] \in {AnyChar, t[end[j]]}

(* The first j characters of the pattern can be laid over the first i of    *)
(* the text.                                                                *)
Layout(t, p, end, i, j) ==
  /\ end \in [0..j -> Nat] /\ end[0] = 0 /\ end[j] = i
  /\ \A k \in 1..j : Lies(t, p, end, k)

Laid(t, p, i, j) == \E end : Layout(t, p, end, i, j)

(* A layout of fewer characters is part of one of more.                     *)
LEMMA LayoutCut ==
  ASSUME NEW t, NEW p, NEW i \in Nat, NEW j \in Nat, j > 0, NEW end, Layout(t, p, end, i, j)
  PROVE  /\ end[j - 1] \in Nat
         /\ Layout(t, p, [k \in 0..(j - 1) |-> end[k]], end[j - 1], j - 1)
         /\ Lies(t, p, end, j) /\ end[j] = i
<1> DEFINE g == [k \in 0..(j - 1) |-> end[k]]
<1>1. end \in [0..j -> Nat] /\ end[0] = 0 /\ end[j] = i /\ \A k \in 1..j : Lies(t, p, end, k)
  BY DEF Layout
<1>2. g \in [0..(j - 1) -> Nat] /\ g[0] = 0 /\ g[j - 1] = end[j - 1] /\ end[j - 1] \in Nat
  BY <1>1
<1>3. ASSUME NEW k \in 1..(j - 1) PROVE Lies(t, p, g, k)
  <2>1. k \in 1..j /\ g[k] = end[k] /\ g[k - 1] = end[k - 1]
    OBVIOUS
  <2> HIDE DEF g
  <2> QED  BY <1>1, <2>1 DEF Lies
<1>4. j \in 1..j
  OBVIOUS
<1> QED  BY <1>1, <1>2, <1>3, <1>4 DEF Layout

(* One more character of the pattern, up to m.                              *)
LEMMA LayoutMore ==
  ASSUME NEW t, NEW p, NEW i \in Nat, NEW j \in Nat, j > 0, NEW end, NEW m \in Nat,
         Layout(t, p, end, i, j - 1),
         IF p[j] = AnyRun THEN i <= m ELSE m = i + 1 /\ p[j] \in {AnyChar, t[m]}
  PROVE  Laid(t, p, m, j)
<1> DEFINE g == [k \in 0..j |-> IF k = j THEN m ELSE end[k]]
<1>1. /\ end \in [0..(j - 1) -> Nat] /\ end[0] = 0 /\ end[j - 1] = i
      /\ \A k \in 1..(j - 1) : Lies(t, p, end, k)
  BY DEF Layout
<1>2. g \in [0..j -> Nat] /\ g[0] = 0 /\ g[j] = m /\ g[j - 1] = i
  BY <1>1
<1>3. ASSUME NEW k \in 1..j PROVE Lies(t, p, g, k)
  <2>1. CASE k = j
    BY <1>2, <2>1 DEF Lies
  <2>2. CASE k # j
    <3>1. k \in 1..(j - 1) /\ g[k] = end[k] /\ g[k - 1] = end[k - 1]
      BY <2>2
    <3> HIDE DEF g
    <3> QED  BY <1>1, <3>1 DEF Lies
  <2> QED  BY <2>1, <2>2
<1>4. Layout(t, p, g, m, j)
  BY <1>2, <1>3 DEF Layout
<1> QED  BY <1>4 DEF Laid

(* Layouts obey the equations of the table.                                 *)
LEMMA LaidNone ==
  ASSUME NEW t, NEW p, NEW i \in Nat
  PROVE  Laid(t, p, i, 0) <=> i = 0
<1>1. Laid(t, p, i, 0) => i = 0
  BY DEF Laid, Layout
<1>2. Layout(t, p, [k \in 0..0 |-> 0], 0, 0)
  BY DEF Layout
<1> QED  BY <1>1, <1>2 DEF Laid

LEMMA LaidOther ==
  ASSUME NEW t, NEW p, NEW i \in Nat, NEW j \in Nat, j > 0, p[j] # AnyRun
  PROVE  Laid(t, p, i, j) <=> i > 0 /\ p[j] \in {AnyChar, t[i]} /\ Laid(t, p, i - 1, j - 1)
<1>1. ASSUME Laid(t, p, i, j)
      PROVE  i > 0 /\ p[j] \in {AnyChar, t[i]} /\ Laid(t, p, i - 1, j - 1)
  <2>1. PICK end : Layout(t, p, end, i, j)
    BY <1>1 DEF Laid
  <2>2. /\ end[j - 1] \in Nat
        /\ Layout(t, p, [k \in 0..(j - 1) |-> end[k]], end[j - 1], j - 1)
        /\ Lies(t, p, end, j) /\ end[j] = i
    BY <2>1, LayoutCut
  <2>3. i = end[j - 1] + 1 /\ p[j] \in {AnyChar, t[i]}
    BY <2>2 DEF Lies
  <2>4. end[j - 1] = i - 1 /\ i > 0
    BY <2>2, <2>3
  <2> QED  BY <2>2, <2>3, <2>4 DEF Laid
<1>2. ASSUME i > 0, p[j] \in {AnyChar, t[i]}, Laid(t, p, i - 1, j - 1)
      PROVE  Laid(t, p, i, j)
  <2>1. PICK end : Layout(t, p, end, i - 1, j - 1)
    BY <1>2 DEF Laid
  <2>2. i - 1 \in Nat /\ i = (i - 1) + 1
    BY <1>2
  <2> QED  BY <1>2, <2>1, <2>2, LayoutMore
<1> QED  BY <1>1, <1>2

LEMMA LaidPercent ==
  ASSUME NEW t, NEW p, NEW i \in Nat, NEW j \in Nat, j > 0, p[j] = AnyRun
  PROVE  Laid(t, p, i, j) <=> Laid(t, p, i, j - 1) \/ (i > 0 /\ Laid(t, p, i - 1, j))
<1>1. ASSUME Laid(t, p, i, j)
      PROVE  Laid(t, p, i, j - 1) \/ (i > 0 /\ Laid(t, p, i - 1, j))
  <2>1. PICK end : Layout(t, p, end, i, j)
    BY <1>1 DEF Laid
  <2>2. /\ end[j - 1] \in Nat
        /\ Layout(t, p, [k \in 0..(j - 1) |-> end[k]], end[j - 1], j - 1)
        /\ Lies(t, p, end, j) /\ end[j] = i
    BY <2>1, LayoutCut
  <2>3. end[j - 1] <= i
    BY <2>2 DEF Lies
  <2>4. CASE end[j - 1] = i
    BY <2>2, <2>4 DEF Laid
  <2>5. CASE end[j - 1] # i
    <3>1. i > 0 /\ i - 1 \in Nat /\ end[j - 1] <= i - 1
      BY <2>2, <2>3, <2>5
    <3> QED  BY <2>2, <3>1, LayoutMore
  <2> QED  BY <2>4, <2>5
<1>2. ASSUME Laid(t, p, i, j - 1) PROVE Laid(t, p, i, j)
  <2>1. PICK end : Layout(t, p, end, i, j - 1)
    BY <1>2 DEF Laid
  <2>2. i <= i
    OBVIOUS
  <2> QED  BY <2>1, <2>2, LayoutMore
<1>3. ASSUME i > 0, Laid(t, p, i - 1, j) PROVE Laid(t, p, i, j)
  <2>1. PICK end : Layout(t, p, end, i - 1, j)
    BY <1>3 DEF Laid
  <2>2. i - 1 \in Nat
    BY <1>3
  <2>3. /\ end[j - 1] \in Nat
        /\ Layout(t, p, [k \in 0..(j - 1) |-> end[k]], end[j - 1], j - 1)
        /\ Lies(t, p, end, j) /\ end[j] = i - 1
    BY <2>1, <2>2, LayoutCut
  <2>4. end[j - 1] <= i
    BY <2>2, <2>3 DEF Lies
  <2> QED  BY <2>3, <2>4, LayoutMore
<1> QED  BY <1>1, <1>2, <1>3


(* The wildcards are different characters.                                  *)
LEMMA WildcardsDiffer == AnyRun # AnyChar
  BY DEF AnyRun, AnyChar

(* The entries on the diagonals before that of i and j are right.           *)
RightBefore(f, t, p, n, m, i, j) ==
  \A a \in 0..n, b \in 0..m : a + b < i + j => f[<<a, b>>] = Laid(t, p, a, b)

(* An entry is right when the entries it is computed from are.              *)
LEMMA TableStep ==
  ASSUME NEW t, NEW p, NEW n \in Nat, NEW m \in Nat, NEW f, NEW i \in 0..n, NEW j \in 0..m,
         RightBefore(f, t, p, n, m, i, j)
  PROVE  LikeEntry(f, t, p, i, j) = Laid(t, p, i, j)
<1>0. i \in Nat /\ j \in Nat
  OBVIOUS
<1>1. CASE j = 0
  <2>1. Laid(t, p, i, 0) <=> i = 0
    BY <1>0, LaidNone
  <2> QED  BY <1>1, <2>1 DEF LikeEntry, Laid
<1>2. CASE j # 0 /\ i = 0
  <2>1. j > 0 /\ j - 1 \in 0..m /\ 0 \in 0..n /\ 0 + (j - 1) < i + j
    BY <1>2
  <2>2. f[<<0, j - 1>>] = Laid(t, p, 0, j - 1)
    BY <2>1 DEF RightBefore
  <2>3. LikeEntry(f, t, p, i, j) = (p[j] = AnyRun /\ Laid(t, p, 0, j - 1))
    BY <1>2, <2>2 DEF LikeEntry
  <2>4. CASE p[j] = AnyRun
    <3>1. Laid(t, p, i, j) <=> Laid(t, p, i, j - 1) \/ (i > 0 /\ Laid(t, p, i - 1, j))
      BY <1>0, <2>1, <2>4, LaidPercent
    <3>2. Laid(t, p, 0, j) <=> Laid(t, p, 0, j - 1)
      BY <1>2, <3>1
    <3> QED  BY <1>2, <2>3, <2>4, <3>2 DEF Laid
  <2>5. CASE p[j] # AnyRun
    <3>1. Laid(t, p, i, j) <=> i > 0 /\ p[j] \in {AnyChar, t[i]} /\ Laid(t, p, i - 1, j - 1)
      BY <1>0, <2>1, <2>5, LaidOther
    <3>2. ~Laid(t, p, 0, j)
      BY <1>2, <3>1
    <3> QED  BY <1>2, <2>3, <2>5, <3>2 DEF Laid
  <2> QED  BY <2>4, <2>5
<1>3. CASE j # 0 /\ i # 0
  <2>1. /\ j > 0 /\ j - 1 \in 0..m /\ i > 0 /\ i - 1 \in 0..n
        /\ i + (j - 1) < i + j /\ (i - 1) + j < i + j /\ (i - 1) + (j - 1) < i + j
    BY <1>3
  <2>2. /\ f[<<i, j - 1>>] = Laid(t, p, i, j - 1)
        /\ f[<<i - 1, j>>] = Laid(t, p, i - 1, j)
        /\ f[<<i - 1, j - 1>>] = Laid(t, p, i - 1, j - 1)
    BY <2>1 DEF RightBefore
  <2>3. LikeEntry(f, t, p, i, j) = LikeStep(f, t, p, i, j)
    BY <1>3 DEF LikeEntry
  <2>4. CASE p[j] = AnyRun
    <3>1. Laid(t, p, i, j) <=> Laid(t, p, i, j - 1) \/ (i > 0 /\ Laid(t, p, i - 1, j))
      BY <1>0, <2>1, <2>4, LaidPercent
    <3>2. p[j] # AnyChar
      BY <2>4, WildcardsDiffer
    <3>3. LikeStep(f, t, p, i, j) = (f[<<i, j - 1>>] \/ f[<<i - 1, j>>])
      BY <2>4, <3>2 DEF LikeStep
    <3>4. Laid(t, p, i, j) <=> Laid(t, p, i, j - 1) \/ Laid(t, p, i - 1, j)
      BY <2>1, <3>1
    <3> QED  BY <2>2, <2>3, <3>3, <3>4, Zenon DEF Laid
  <2>5. CASE p[j] # AnyRun
    <3>1. Laid(t, p, i, j) <=> i > 0 /\ p[j] \in {AnyChar, t[i]} /\ Laid(t, p, i - 1, j - 1)
      BY <1>0, <2>1, <2>5, LaidOther
    <3>2. Laid(t, p, i, j) <=> (p[j] = AnyChar \/ p[j] = t[i]) /\ Laid(t, p, i - 1, j - 1)
      BY <2>1, <3>1
    <3>3. CASE p[j] = AnyChar
      <4>1. LikeStep(f, t, p, i, j) = f[<<i - 1, j - 1>>]
        BY <2>5, <3>3 DEF LikeStep
      <4> QED  BY <2>2, <2>3, <3>2, <3>3, <4>1, Zenon DEF Laid
    <3>4. CASE p[j] # AnyChar
      <4>1. LikeStep(f, t, p, i, j) = (p[j] = t[i] /\ f[<<i - 1, j - 1>>])
        BY <2>5, <3>4 DEF LikeStep
      <4> QED  BY <2>2, <2>3, <3>2, <3>4, <4>1, Zenon DEF Laid
    <3> QED  BY <3>3, <3>4
  <2> QED  BY <2>4, <2>5
<1> QED  BY <1>1, <1>2, <1>3

(* The table exists: the layouts are one.                                   *)
LEMMA TableExists ==
  ASSUME NEW t, NEW p, NEW n \in Nat, NEW m \in Nat
  PROVE  \E g : g = [c \in (0..n) \X (0..m) |-> LikeEntry(g, t, p, c[1], c[2])]
<1> DEFINE D == (0..n) \X (0..m)
           f == [c \in D |-> Laid(t, p, c[1], c[2])]
<1>1. \A a \in 0..n, b \in 0..m : f[<<a, b>>] = Laid(t, p, a, b)
  OBVIOUS
<1>2. ASSUME NEW c \in D PROVE LikeEntry(f, t, p, c[1], c[2]) = Laid(t, p, c[1], c[2])
  <2>1. c[1] \in 0..n /\ c[2] \in 0..m
    OBVIOUS
  <2> HIDE DEF f
  <2>2. RightBefore(f, t, p, n, m, c[1], c[2])
    BY <1>1, Zenon DEF RightBefore
  <2> HIDE DEF D
  <2> QED  BY <2>1, <2>2, TableStep
<1>3. f = [c \in D |-> LikeEntry(f, t, p, c[1], c[2])]
  <2>1. ASSUME NEW g, \A c \in D : LikeEntry(g, t, p, c[1], c[2]) = Laid(t, p, c[1], c[2])
        PROVE  [c \in D |-> Laid(t, p, c[1], c[2])] = [c \in D |-> LikeEntry(g, t, p, c[1], c[2])]
    <3> HIDE DEF D
    <3> QED  BY <2>1, Zenon
  <2>2. \A c \in D : LikeEntry(f, t, p, c[1], c[2]) = Laid(t, p, c[1], c[2])
    BY <1>2, Zenon
  <2> QED  BY <2>1, <2>2, Zenon
<1> HIDE DEF f
<1> QED  BY <1>3

(* And there is only one.                                                   *)
IsTable(dp, t, p, n, m) ==
  dp = [c \in (0..n) \X (0..m) |-> LikeEntry(dp, t, p, c[1], c[2])]

LEMMA TableIsLaid ==
  ASSUME NEW t, NEW p, NEW n \in Nat, NEW m \in Nat, NEW dp,
         IsTable(dp, t, p, n, m)
  PROVE  dp[<<n, m>>] = Laid(t, p, n, m)
<1> DEFINE Wrong == {k \in Nat : \E i \in 0..n, j \in 0..m :
                       i + j = k /\ dp[<<i, j>>] # Laid(t, p, i, j)}
<1>5. ASSUME NEW i \in 0..n, NEW j \in 0..m PROVE dp[<<i, j>>] = LikeEntry(dp, t, p, i, j)
  <2>1. <<i, j>> \in (0..n) \X (0..m) /\ <<i, j>>[1] = i /\ <<i, j>>[2] = j
    OBVIOUS
  <2> QED  BY <2>1 DEF IsTable
<1>6. Wrong = {}
  <2> SUFFICES ASSUME Wrong # {} PROVE FALSE
    OBVIOUS
  <2>1. Wrong \subseteq Nat
    OBVIOUS
  <2>2. PICK k \in Wrong : \A l \in Wrong : k <= l
    <3> HIDE DEF Wrong
    <3> QED  BY <2>1, LeastNumber
  <2>3. PICK i \in 0..n, j \in 0..m : i + j = k /\ dp[<<i, j>>] # Laid(t, p, i, j)
    BY <2>2
  <2>4. ASSUME NEW a \in 0..n, NEW b \in 0..m, a + b < i + j
        PROVE  dp[<<a, b>>] = Laid(t, p, a, b)
    <3>1. a + b \in Nat /\ ~(k <= a + b)
      BY <2>3, <2>4
    <3>2. a + b \notin Wrong
      BY <2>2, <3>1
    <3> QED  BY <3>1, <3>2
  <2>5. RightBefore(dp, t, p, n, m, i, j)
    BY <2>4, Zenon DEF RightBefore
  <2>6. LikeEntry(dp, t, p, i, j) = Laid(t, p, i, j)
    <3> HIDE DEF Wrong
    <3> QED  BY <2>5, TableStep
  <2> QED  BY <1>5, <2>3, <2>6
<1>7. n \in 0..n /\ m \in 0..m /\ n + m \in Nat
  OBVIOUS
<1> QED  BY <1>6, <1>7

(* A layout over the whole text is one of Covers: its ends do not pass the  *)
(* end of the text.                                                         *)
LEMMA LaidIsCovers ==
  ASSUME NEW t, NEW p, IsSeq(t), IsSeq(p)
  PROVE  Laid(t, p, Len(t), Len(p)) <=> Covers(p, t)
<1> DEFINE n == Len(t)
           m == Len(p)
<1>0. n \in Nat /\ m \in Nat
  BY SeqIsFunction
<1>1. ASSUME NEW end, Layout(t, p, end, n, m) PROVE end \in [0..m -> 0..n]
  <2>1. /\ end \in [0..m -> Nat] /\ end[m] = n
        /\ \A k \in 1..m : Lies(t, p, end, k)
    BY <1>1 DEF Layout
  <2> DEFINE S == {d \in 0..m : end[m - d] <= n}
  <2>2. 0 \in S
    BY <1>0, <2>1
  <2>3. ASSUME NEW d \in 0..(m - 1), d \in S PROVE d + 1 \in S
    <3>1. m - d \in 1..m /\ m - (d + 1) = (m - d) - 1 /\ m - (d + 1) \in 0..m /\ m - d \in 0..m
      BY <1>0
    <3>2. end[m - d] \in Nat /\ end[m - (d + 1)] \in Nat /\ Lies(t, p, end, m - d)
      BY <2>1, <3>1
    <3>3. end[m - (d + 1)] <= end[m - d]
      BY <3>1, <3>2 DEF Lies
    <3>4. d + 1 \in 0..m /\ end[m - d] <= n
      BY <1>0, <2>3
    <3> QED  BY <1>0, <3>2, <3>3, <3>4
  <2>4. \A d \in 0..m : d \in S
    <3> HIDE DEF S
    <3> QED  BY <1>0, <2>2, <2>3, UpTo
  <2>5. ASSUME NEW k \in 0..m PROVE end[k] \in 0..n
    <3>1. m - k \in 0..m /\ m - (m - k) = k
      BY <1>0
    <3>2. end[m - (m - k)] <= n
      BY <2>4, <3>1
    <3>3. end[k] <= n /\ end[k] \in Nat
      BY <2>1, <3>1, <3>2
    <3> QED  BY <1>0, <3>3
  <2> QED  BY <2>1, <2>5
<1>2. Covers(p, t) <=> \E end \in [0..m -> 0..n] :
                         end[0] = 0 /\ end[m] = n /\ \A k \in 1..m : Lies(t, p, end, k)
  BY DEF Covers, Lies
<1>3. ASSUME NEW end \in [0..m -> 0..n], end[0] = 0, end[m] = n, \A k \in 1..m : Lies(t, p, end, k)
      PROVE  Layout(t, p, end, n, m)
  <2>1. end \in [0..m -> Nat]
    BY <1>0
  <2> QED  BY <1>3, <2>1 DEF Layout
<1>4. ASSUME NEW end, Layout(t, p, end, n, m)
      PROVE  end[0] = 0 /\ end[m] = n /\ \A k \in 1..m : Lies(t, p, end, k)
  BY <1>4 DEF Layout
<1> HIDE DEF n, m
<1>5. Laid(t, p, n, m) <=> Covers(p, t)
  BY <1>1, <1>2, <1>3, <1>4 DEF Laid
<1> QED  BY <1>5 DEF n, m

(* LIKE is true exactly if the pattern can be laid out over the text, % over *)
(* any number of characters, _ over one, another character over itself in   *)
(* either case, for texts and patterns of any length (like_match).          *)
THEOREM LikeIsLayout ==
  ASSUME NEW text, NEW pattern, IsSeq(text), IsSeq(pattern)
  PROVE  LikeMatch(text, pattern) <=> Covers(Lower(pattern), Lower(text))
<1> DEFINE t == Lower(text)
           p == Lower(pattern)
           n == Len(text)
           m == Len(pattern)
           dp == CHOOSE g : g = [c \in (0..n) \X (0..m) |-> LikeEntry(g, t, p, c[1], c[2])]
<1>1. /\ n \in Nat /\ m \in Nat
      /\ IsSeq(t) /\ Len(t) = n /\ IsSeq(p) /\ Len(p) = m
  <2>1. ASSUME NEW s, IsSeq(s) PROVE Len(s) \in Nat /\ IsSeq(Lower(s)) /\ Len(Lower(s)) = Len(s)
    <3>1. Len(s) \in Nat /\ DOMAIN s = 1..Len(s)
      BY <2>1, SeqIsFunction
    <3>2. Lower(s) = [i \in 1..Len(s) |-> Lower(s)[i]]
      BY <3>1 DEF Lower
    <3> QED  BY <3>1, <3>2, FunctionIsSeq
  <2> QED  BY <2>1
<1>2. LikeMatch(text, pattern) = dp[<<n, m>>]
  BY DEF LikeMatch
<1> HIDE DEF t, p, n, m
<1>3. IsTable(dp, t, p, n, m)
  BY <1>1, TableExists DEF IsTable
<1> HIDE DEF dp
<1>4. dp[<<n, m>>] = Laid(t, p, n, m)
  BY <1>1, <1>3, TableIsLaid
<1>5. Laid(t, p, Len(t), Len(p)) <=> Covers(p, t)
  BY <1>1, LaidIsCovers
<1> QED  BY <1>1, <1>2, <1>4, <1>5 DEF t, p


-----------------------------------------------------------------------------
(* Counting rows                                                            *)

(* A map that hits every element of T once counts T.                        *)
LEMMA CountByMap ==
  ASSUME NEW S, IsFiniteSet(S), NEW T, NEW f \in [S -> T],
         \A x, y \in S : f[x] = f[y] => x = y, \A z \in T : \E x \in S : f[x] = z
  PROVE  IsFiniteSet(T) /\ Cardinality(T) = Cardinality(S)
<1>1. f \in Surjection(S, T) /\ f \in Injection(S, T)
  BY DEF Surjection, Injection, IsInjective
<1> QED  BY <1>1, FS_Surjection

(* The two parts of a set.                                                  *)
LEMMA CountParts ==
  ASSUME NEW S, NEW T, IsFiniteSet(S \union T), S \intersect T = {}
  PROVE  /\ IsFiniteSet(S) /\ IsFiniteSet(T)
         /\ Cardinality(S) \in Nat /\ Cardinality(T) \in Nat
         /\ Cardinality(S \union T) = Cardinality(S) + Cardinality(T)
<1>1. IsFiniteSet(S) /\ IsFiniteSet(T)
  BY FS_Subset
<1>2. Cardinality(S) \in Nat /\ Cardinality(T) \in Nat
  BY <1>1, FS_CardinalityType
<1>3. Cardinality(S \union T) = Cardinality(S) + Cardinality(T) - Cardinality(S \intersect T)
  BY <1>1, FS_Union
<1>4. Cardinality(S \intersect T) = 0
  BY FS_EmptySet
<1> QED  BY <1>1, <1>2, <1>3, <1>4

(* How often a row occurs is a number.                                      *)
LEMMA OccurrencesType ==
  ASSUME NEW s, IsSeq(s), NEW x
  PROVE  IsFiniteSet({i \in DOMAIN s : s[i] = x}) /\ Occurrences(s, x) \in Nat
<1>1. Len(s) \in Nat /\ DOMAIN s = 1..Len(s)
  BY SeqIsFunction
<1>2. {i \in DOMAIN s : s[i] = x} \subseteq 1..Len(s)
  BY <1>1
<1> QED  BY <1>1, <1>2, PositionsFinite DEF Occurrences

(* A row occurs among chosen ones as often as it is chosen.                 *)
Chosen(s, K, x) == {p \in K : s[p] = x}

LEMMA OccurrencesAt ==
  ASSUME NEW s, NEW N \in Nat, NEW K, K \subseteq 1..N, NEW x
  PROVE  Occurrences(At(s, K), x) = Cardinality(Chosen(s, K, x))
<1>0. /\ Cardinality(K) \in Nat /\ DOMAIN At(s, K) = 1..Cardinality(K)
      /\ \A i \in 1..Cardinality(K) : At(s, K)[i] = s[Place(K, i)]
  <2>1. At(s, K) = [i \in 1..Cardinality(K) |-> s[Place(K, i)]]
    BY DEF At, Place, Low
  <2>2. Cardinality(K) \in Nat
    BY PositionsFinite
  <2> QED  BY <2>1, <2>2
<1> DEFINE n == Cardinality(K)
<1>1. /\ n \in Nat /\ DOMAIN At(s, K) = 1..n
      /\ \A i \in 1..n : At(s, K)[i] = s[Place(K, i)]
  BY <1>0
<1>2. /\ \A i \in 1..n : Place(K, i) \in K
      /\ \A i, j \in 1..n : i < j => Place(K, i) < Place(K, j)
  BY PlaceFacts
<1> DEFINE S == {i \in 1..n : At(s, K)[i] = x}
           T == {p \in K : s[p] = x}
           f == [i \in S |-> Place(K, i)]
<1>3. IsFiniteSet(S)
  <2>1. S \subseteq 1..n
    OBVIOUS
  <2> QED  BY <1>1, <2>1, PositionsFinite
<1>4. f \in [S -> T]
  BY <1>1, <1>2
<1>5. ASSUME NEW i \in S, NEW j \in S, f[i] = f[j] PROVE i = j
  <2>1. Place(K, i) = Place(K, j) /\ i \in 1..n /\ j \in 1..n
    BY <1>5
  <2>2. Place(K, i) \in 1..N
    BY <1>2, <2>1
  <2> HIDE DEF n
  <2> QED  BY <1>1, <1>2, <2>1, <2>2
<1>6. ASSUME NEW p \in T PROVE \E i \in S : f[i] = p
  <2>1. PICK i \in 1..n : Place(K, i) = p
    BY PlaceOnto
  <2>2. i \in S
    BY <1>1, <2>1
  <2> QED  BY <2>1, <2>2
<1>7. Cardinality(T) = Cardinality(S)
  <2> HIDE DEF f, S, T
  <2> QED  BY <1>3, <1>4, <1>5, <1>6, CountByMap
<1> QED  BY <1>1, <1>7 DEF Occurrences, Chosen

(* Rows one after the other.                                                *)
LEMMA OccurrencesConcat ==
  ASSUME NEW s, NEW t, IsSeq(s), IsSeq(t), NEW x
  PROVE  Occurrences(s \o t, x) = Occurrences(s, x) + Occurrences(t, x)
<1> DEFINE n == Len(s)
           m == Len(t)
           U == {i \in DOMAIN (s \o t) : (s \o t)[i] = x}
           A == {i \in DOMAIN s : s[i] = x}
           B == {i \in DOMAIN t : t[i] = x}
           C == {n + i : i \in B}
           f == [i \in B |-> n + i]
<1>1. /\ n \in Nat /\ m \in Nat /\ DOMAIN s = 1..n /\ DOMAIN t = 1..m
      /\ DOMAIN (s \o t) = 1..(n + m)
      /\ \A i \in 1..n : (s \o t)[i] = s[i]
      /\ \A i \in 1..m : (s \o t)[n + i] = t[i]
  BY ConcatFacts, SeqIsFunction
<1> HIDE DEF n, m
<1>2. IsFiniteSet(U) /\ IsFiniteSet(B)
  <2>1. IsSeq(s \o t)
    BY ConcatFacts
  <2> QED  BY <2>1, OccurrencesType
<1>3. U = A \union C
  <2>1. ASSUME NEW i \in 1..(n + m) PROVE i \in U <=> i \in A \/ i \in C
    <3>1. CASE i \in 1..n
      <4>1. i \notin C
        BY <1>1, <3>1
      <4> QED  BY <1>1, <3>1, <4>1
    <3>2. CASE i \notin 1..n
      <4>1. i - n \in 1..m /\ n + (i - n) = i
        BY <1>1, <3>2
      <4>2. (s \o t)[i] = t[i - n]
        BY <1>1, <4>1
      <4>3. i \in C <=> i - n \in B
        BY <1>1, <4>1
      <4> QED  BY <1>1, <3>2, <4>1, <4>2, <4>3
    <3> QED  BY <3>1, <3>2
  <2>2. A \subseteq 1..(n + m) /\ C \subseteq 1..(n + m) /\ U \subseteq 1..(n + m)
    BY <1>1
  <2> HIDE DEF A, C, U
  <2> QED  BY <2>1, <2>2
<1>4. A \intersect C = {}
  BY <1>1
<1>5. f \in [B -> C] /\ (\A i, j \in B : f[i] = f[j] => i = j) /\ \A z \in C : \E i \in B : f[i] = z
  <2>1. \A i \in B : i \in Nat
    BY <1>1
  <2> HIDE DEF B
  <2> QED  BY <1>1, <2>1
<1>6. Cardinality(C) = Cardinality(B)
  <2> HIDE DEF f, B, C
  <2> QED  BY <1>2, <1>5, CountByMap
<1>7. Cardinality(U) = Cardinality(A) + Cardinality(C)
  <2> HIDE DEF U, A, C
  <2> QED  BY <1>2, <1>3, <1>4, CountParts
<1> QED  BY <1>6, <1>7 DEF Occurrences

-----------------------------------------------------------------------------
(* WHERE                                                                    *)

(* The rows kept.                                                           *)
LEMMA KeptRows ==
  ASSUME NEW columns, NEW rows, IsSeq(rows), NEW where \in [DOMAIN rows -> SqlValue]
  PROVE  KeepRows(Relation(columns, rows), where)
           = Relation(columns, At(rows, {p \in DOMAIN rows : Truth(where[p]) = "True"}))
<1>1. Error \notin Range(where)
  BY ValueFacts DEF Range
<1> QED  BY <1>1 DEF KeepRows, Relation

Not(a) == OperandValue([kind |-> "unary", op |-> "not"], a)
IsNullTest(a) == OperandValue([kind |-> "isNull", negated |-> FALSE], a)

(* Of a value, of its negation and of its test for NULL exactly one is true. *)
LEMMA OneOfThree ==
  ASSUME NEW a \in SqlValue
  PROVE  /\ Not(a) \in SqlValue /\ IsNullTest(a) \in SqlValue
         /\ Truth(a) = "True" => Truth(Not(a)) # "True" /\ Truth(IsNullTest(a)) # "True"
         /\ Truth(a) # "True" => (Truth(Not(a)) = "True" <=> Truth(IsNullTest(a)) # "True")
<1>1. ~IsError(a)
  BY ValueFacts
<1>2. Not(a) = TruthValue(Negate(Truth(a))) /\ IsNullTest(a) = BooleanValue(IsNull(a))
  <2>1. Not(a) = TruthValue(Negate(Truth(a)))
    BY <1>1 DEF Not, OperandValue, UnaryValue
  <2>2. IsNullTest(a) = BooleanValue(IsNull(a) # FALSE)
    BY <1>1 DEF IsNullTest, OperandValue
  <2>3. BooleanValue(IsNull(a) # FALSE) = BooleanValue(IsNull(a))
    BY DEF BooleanValue, IsNull
  <2> QED  BY <2>1, <2>2, <2>3
<1>3. Truth(a) \in SqlTruth /\ (Truth(a) = "Unknown" <=> IsNull(a))
  BY DEF Truth, FromBool, SqlTruth
<1>4. \A b \in SqlTruth : Negate(b) \in SqlTruth /\ TruthValue(b) \in SqlValue
                          /\ Truth(TruthValue(b)) = b
  BY DEF SqlTruth, Negate, TruthValue, BooleanValue, SqlValue, DataType, Truth, IsNull,
         FromBool, Null
<1>5. /\ BooleanValue(IsNull(a)) \in SqlValue
      /\ Truth(BooleanValue(IsNull(a))) = "True" <=> IsNull(a)
  BY DEF BooleanValue, SqlValue, DataType, Truth, FromBool, IsNull
<1>6. Negate("True") = "False" /\ Negate("False") = "True" /\ Negate("Unknown") = "Unknown"
  BY DEF Negate
<1> QED  BY <1>2, <1>3, <1>4, <1>5, <1>6 DEF SqlTruth

(* WHERE p, WHERE NOT p and WHERE p IS NULL share the rows out: together    *)
(* they answer every row as often as it is there, whatever p says of each   *)
(* row, if it says something of all (execute_query, eval_expr,              *)
(* SqlTruth::negate).                                                       *)
THEOREM WhereSplitsRows ==
  ASSUME NEW columns, NEW rows, IsSeq(rows), NEW where \in [DOMAIN rows -> SqlValue]
  PROVE  LET kept(w) == KeepRows(Relation(columns, rows), w).rows
         IN SameRows(kept(where) \o kept([p \in DOMAIN rows |-> Not(where[p])])
                       \o kept([p \in DOMAIN rows |-> IsNullTest(where[p])]), rows)
<1> DEFINE N == Len(rows)
           no == [p \in DOMAIN rows |-> Not(where[p])]
           null == [p \in DOMAIN rows |-> IsNullTest(where[p])]
           K(w) == {p \in DOMAIN rows : Truth(w[p]) = "True"}
           A == At(rows, K(where))
           B == At(rows, K(no))
           C == At(rows, K(null))
<1>1. N \in Nat /\ DOMAIN rows = 1..N
  BY SeqIsFunction
<1>2. no \in [DOMAIN rows -> SqlValue] /\ null \in [DOMAIN rows -> SqlValue]
  BY OneOfThree
<1>3. \A p \in DOMAIN rows : /\ p \in K(where) => p \notin K(no) /\ p \notin K(null)
                             /\ p \notin K(where) => (p \in K(no) <=> p \notin K(null))
  BY OneOfThree
<1>4. K(where) \subseteq 1..N /\ K(no) \subseteq 1..N /\ K(null) \subseteq 1..N
  BY <1>1
<1>5. /\ KeepRows(Relation(columns, rows), where).rows = A
      /\ KeepRows(Relation(columns, rows), no).rows = B
      /\ KeepRows(Relation(columns, rows), null).rows = C
  <2>1. ASSUME NEW w \in [DOMAIN rows -> SqlValue]
        PROVE  KeepRows(Relation(columns, rows), w).rows = At(rows, K(w))
    <3>1. KeepRows(Relation(columns, rows), w) = Relation(columns, At(rows, K(w)))
      BY KeptRows
    <3> QED  BY <3>1 DEF Relation
  <2> HIDE DEF no, null, K
  <2> QED  BY <1>2, <2>1
<1> HIDE DEF no, null, K, N
<1>6. IsSeq(A) /\ IsSeq(B) /\ IsSeq(C) /\ IsSeq(A \o B)
  BY <1>1, <1>4, AtFacts, ConcatFacts
<1>7. ASSUME NEW x PROVE Occurrences((A \o B) \o C, x) = Occurrences(rows, x)
  <2> DEFINE Has == {p \in DOMAIN rows : rows[p] = x}
             In(w) == {p \in K(w) : rows[p] = x}
  <2>1. /\ Occurrences(A, x) = Cardinality(In(where))
        /\ Occurrences(B, x) = Cardinality(In(no))
        /\ Occurrences(C, x) = Cardinality(In(null))
    BY <1>1, <1>4, OccurrencesAt DEF Chosen
  <2>2. /\ Occurrences(A \o B, x) = Occurrences(A, x) + Occurrences(B, x)
        /\ Occurrences((A \o B) \o C, x) = Occurrences(A \o B, x) + Occurrences(C, x)
    <3> HIDE DEF A, B, C
    <3> QED  BY <1>6, OccurrencesConcat
  <2>3. IsFiniteSet(Has)
    BY OccurrencesType
  <2>4. Has = In(where) \union (Has \ In(where)) /\ In(where) \intersect (Has \ In(where)) = {}
    BY <1>1, <1>4
  <2>5. /\ Has \ In(where) = In(no) \union In(null) /\ In(no) \intersect In(null) = {}
    BY <1>1, <1>3, <1>4
  <2> HIDE DEF Has, In
  <2>6. /\ Cardinality(Has) = Cardinality(In(where)) + Cardinality(Has \ In(where))
        /\ IsFiniteSet(Has \ In(where)) /\ Cardinality(In(where)) \in Nat
    BY <2>3, <2>4, CountParts
  <2>7. /\ Cardinality(Has \ In(where)) = Cardinality(In(no)) + Cardinality(In(null))
        /\ Cardinality(In(no)) \in Nat /\ Cardinality(In(null)) \in Nat
    BY <2>5, <2>6, CountParts
  <2>8. Occurrences(rows, x) = Cardinality(Has)
    BY DEF Occurrences, Has
  <2> QED  BY <2>1, <2>2, <2>6, <2>7, <2>8
<1> QED  BY <1>5, <1>7 DEF SameRows, no, null


-----------------------------------------------------------------------------
(* The filter of an index                                                   *)

(* All rows, chosen one by one, are the rows.                               *)
LEMMA AtAll ==
  ASSUME NEW s, IsSeq(s)
  PROVE  At(s, DOMAIN s) = s
<1> DEFINE N == Len(s)
           K == DOMAIN s
<1>1. N \in Nat /\ K = 1..N /\ s = [i \in 1..N |-> s[i]]
  BY SeqIsFunction
<1> HIDE DEF N, K
<1>2. Cardinality(K) = N
  BY <1>1, FS_Interval
<1>3. ASSUME NEW i \in 1..N PROVE Place(K, i) = i
  <2>1. PICK j \in 1..N : Place(K, j) = i
    BY <1>1, <1>2, PlaceOnto
  <2>2. ASSUME NEW p \in K PROVE Cardinality(Low(K, p)) = p - 1
    <3>1. p \in 1..N /\ Low(K, p) = 1..(p - 1)
      BY <1>1 DEF Low
    <3>2. 1 \in Int /\ p - 1 \in Int /\ (1 > p - 1 => p - 1 = 0)
      BY <3>1, <1>1
    <3> QED  BY <3>1, <3>2, FS_Interval
  <2>3. i \in K /\ Cardinality(Low(K, i)) = i - 1
    BY <1>1, <2>2
  <2>4. Place(K, i) \in K /\ Cardinality(Low(K, Place(K, i))) = i - 1
    BY <2>3 DEF Place
  <2>5. Place(K, i) - 1 = i - 1 /\ Place(K, i) \in 1..N
    BY <1>1, <2>2, <2>4
  <2> QED  BY <1>1, <2>5
<1>4. At(s, K) = [i \in 1..Cardinality(K) |-> s[Place(K, i)]]
  BY DEF At, Place, Low
<1>5. At(s, K) = s
  BY <1>1, <1>2, <1>3, <1>4
<1> QED  BY <1>5 DEF K

(* What a comparison of a column with a literal says of a row.              *)
Says(predicate, columns, row) ==
  \A c \in DOMAIN columns : predicate.name = columns[c]
    => CompareSql(row[c], predicate.op, predicate.value) = "True"

(* A comparison that is true of a value is true of its index key, if the    *)
(* literal has the type of the column.                                      *)
LEMMA KeyOfTrue ==
  ASSUME NEW a \in SqlValue, NEW b \in SqlValue, NEW op,
         ~IsNull(a) /\ ~IsNull(b) => a.type = b.type, CompareSql(a, op, b) = "True"
  PROVE  CompareKeyPart(a, op, b)
<1>1. ~IsNull(a) /\ ~IsNull(b)
  BY DEF CompareSql
<1>2. a.type = b.type
  BY <1>1
<1>3. Comparable(a, b)
  BY <1>2 DEF Comparable
<1>4. CompareSql(a, op, b) = FromBool(Ordered(a.v, op, b.v))
  BY <1>1, <1>2, <1>3 DEF CompareSql, Against
<1> QED  BY <1>2, <1>4 DEF CompareKeyPart, FromBool

(* The rows an index leaves for a condition are rows of the table in their  *)
(* order, and no row is missing that all comparisons of the condition are   *)
(* true of, whichever index is used, as long as the literals compared with  *)
(* a column have its type (candidate_row_ids, relation_from_table).         *)
THEOREM IndexKeepsTrueRows ==
  ASSUME NEW table, NEW predicates, IsSeq(table.rows), IsSeq(predicates),
         \A p \in DOMAIN table.rows, c \in DOMAIN table.columns :
           table.rows[p][c] \in SqlValue,
         \A i \in DOMAIN predicates : predicates[i].value \in SqlValue,
         \A i \in DOMAIN predicates, p \in DOMAIN table.rows, c \in DOMAIN table.columns :
           /\ predicates[i].name = table.columns[c]
           /\ ~IsNull(predicates[i].value) /\ ~IsNull(table.rows[p][c])
           => table.rows[p][c].type = predicates[i].value.type
  PROVE  \E K \in SUBSET DOMAIN table.rows :
           /\ IndexFilter(table, predicates) = At(table.rows, K)
           /\ \A p \in DOMAIN table.rows :
                (\A i \in DOMAIN predicates : Says(predicates[i], table.columns, table.rows[p]))
                  => p \in K
<1> DEFINE named(c) == {i \in DOMAIN predicates : predicates[i].name = c}
           at(c) == CHOOSE i \in named(c) : \A j \in named(c) : i <= j
           first(c) == predicates[at(c)]
           usable == {i \in DOMAIN table.columns :
                        /\ table.columns[i] \in table.indexed
                        /\ named(table.columns[i]) # {}
                        /\ first(table.columns[i]).op # "<>"}
           equal == {i \in usable : first(table.columns[i]).op = "="}
           used == IF equal # {} THEN CHOOSE i \in equal : TRUE ELSE CHOOSE i \in usable : TRUE
           pred == first(table.columns[used])
           K == {p \in DOMAIN table.rows :
                   CompareKeyPart(table.rows[p][used], pred.op, pred.value)}
<1>1. IndexFilter(table, predicates) = IF usable = {} THEN table.rows ELSE At(table.rows, K)
  BY DEF IndexFilter
<1>2. CASE usable = {}
  <2>1. IndexFilter(table, predicates) = At(table.rows, DOMAIN table.rows)
    BY <1>1, <1>2, AtAll
  <2> QED  BY <2>1
<1>3. CASE usable # {}
  <2>1. used \in usable
    BY <1>3
  <2>2. used \in DOMAIN table.columns /\ named(table.columns[used]) # {}
    BY <2>1
  <2>3. at(table.columns[used]) \in named(table.columns[used])
    <3> DEFINE T == named(table.columns[used])
    <3>1. DOMAIN predicates = 1..Len(predicates) /\ Len(predicates) \in Nat
      BY SeqIsFunction
    <3>2. T \subseteq DOMAIN predicates
      OBVIOUS
    <3>3. T # {}
      BY <2>2
    <3> HIDE DEF T
    <3>4. T \subseteq Nat /\ T # {}
      BY <3>1, <3>2, <3>3
    <3>5. \E m \in T : \A n \in T : m <= n
      BY <3>4, LeastNumber
    <3>6. (CHOOSE i \in T : \A j \in T : i <= j) \in T
      BY <3>5
    <3> QED  BY <3>6 DEF T
  <2>4. PICK i \in DOMAIN predicates : pred = predicates[i] /\ pred.name = table.columns[used]
    BY <2>3
  <2> HIDE DEF used, pred
  <2>5. ASSUME NEW p \in DOMAIN table.rows,
               \A j \in DOMAIN predicates : Says(predicates[j], table.columns, table.rows[p])
        PROVE  p \in K
    <3>1. CompareSql(table.rows[p][used], pred.op, pred.value) = "True"
      BY <2>2, <2>4, <2>5 DEF Says
    <3>2. table.rows[p][used] \in SqlValue /\ pred.value \in SqlValue
      BY <2>2, <2>4
    <3>3. ~IsNull(table.rows[p][used]) /\ ~IsNull(pred.value)
            => table.rows[p][used].type = pred.value.type
      BY <2>2, <2>4
    <3>4. CompareKeyPart(table.rows[p][used], pred.op, pred.value)
      BY <3>1, <3>2, <3>3, KeyOfTrue
    <3> QED  BY <3>4
  <2>6. IndexFilter(table, predicates) = At(table.rows, K)
    BY <1>1, <1>3
  <2>7. K \in SUBSET DOMAIN table.rows
    OBVIOUS
  <2> HIDE DEF K
  <2> QED  BY <2>5, <2>6, <2>7
<1> QED  BY <1>2, <1>3

-----------------------------------------------------------------------------
(* Groups                                                                   *)

(* GROUP BY gives one group to every key that occurs: the rows with that    *)
(* key, all of them, in their order.  No key has two groups, so every row   *)
(* is in the group of its key and in no other (aggregate_query).            *)
THEOREM GroupsPartition ==
  ASSUME NEW q, NEW rows, NEW keys, IsSeq(rows), IsSeq(keys), DOMAIN keys = DOMAIN rows,
         rows # <<>> \/ q.groupBy # <<>>
  PROVE  \E each :
           /\ DOMAIN GroupRows(q, rows, keys) = DOMAIN each
           /\ \A i, j \in DOMAIN each : each[i] = each[j] => i = j
           /\ \A p \in DOMAIN rows : \E i \in DOMAIN each : each[i] = keys[p]
           /\ \A i \in DOMAIN each :
                /\ GroupRows(q, rows, keys)[i] = At(rows, {p \in DOMAIN rows : keys[p] = each[i]})
                /\ \E p \in DOMAIN rows : each[i] = keys[p]
<1> DEFINE N == Len(rows)
           F == {i \in DOMAIN keys : \A j \in 1..(i - 1) : keys[j] # keys[i]}
           each == DistinctBy(keys, keys)
           n == Cardinality(F)
<1>1. N \in Nat /\ DOMAIN rows = 1..N /\ DOMAIN keys = 1..N /\ F \subseteq 1..N
  BY SeqIsFunction
<1>2. each = [i \in 1..n |-> keys[Place(F, i)]] /\ n \in Nat
  <2>1. each = At(keys, F)
    BY DEF DistinctBy
  <2> HIDE DEF F
  <2> QED  BY <1>1, <2>1, PositionsFinite DEF At, Place, Low
<1>3. GroupRows(q, rows, keys)
        = [i \in DOMAIN each |-> At(rows, {p \in DOMAIN rows : keys[p] = each[i]})]
  BY DEF GroupRows
<1> HIDE DEF each, N, n
<1>4. /\ \A i \in 1..n : Place(F, i) \in F
      /\ \A i, j \in 1..n : i < j => Place(F, i) < Place(F, j)
  <2> HIDE DEF F
  <2> QED  BY <1>1, PlaceFacts DEF n
<1>5. ASSUME NEW i \in 1..n, NEW j \in 1..n, i < j PROVE each[i] # each[j]
  <2>1. Place(F, i) \in F /\ Place(F, j) \in F /\ Place(F, i) < Place(F, j)
    BY <1>4, <1>5
  <2>2. Place(F, i) \in 1..(Place(F, j) - 1)
    BY <1>1, <2>1
  <2>3. keys[Place(F, i)] # keys[Place(F, j)]
    BY <2>1, <2>2
  <2> QED  BY <1>2, <2>3
<1>6. ASSUME NEW i \in DOMAIN each, NEW j \in DOMAIN each, each[i] = each[j] PROVE i = j
  <2>1. i \in 1..n /\ j \in 1..n /\ (i < j \/ j < i \/ i = j)
    BY <1>2
  <2> QED  BY <1>5, <1>6, <2>1
<1>7. ASSUME NEW p \in DOMAIN rows PROVE \E i \in DOMAIN each : each[i] = keys[p]
  <2> DEFINE T == {k \in 1..N : keys[k] = keys[p]}
  <2>1. T \subseteq Nat /\ p \in T
    BY <1>1
  <2>2. PICK k \in T : \A l \in T : k <= l
    <3> HIDE DEF T
    <3> QED  BY <2>1, LeastNumber
  <2>3. k \in F
    <3>1. ASSUME NEW j \in 1..(k - 1) PROVE keys[j] # keys[k]
      <4>1. j \in 1..N /\ ~(k <= j)
        BY <1>1, <2>2
      <4> QED  BY <2>2, <4>1
    <3> QED  BY <1>1, <2>2, <3>1
  <2>4. PICK i \in 1..n : Place(F, i) = k
    <3> HIDE DEF F
    <3> QED  BY <1>1, <2>3, PlaceOnto DEF n
  <2> QED  BY <1>2, <2>2, <2>4
<1>8. ASSUME NEW i \in DOMAIN each PROVE \E p \in DOMAIN rows : each[i] = keys[p]
  <2>1. i \in 1..n /\ each[i] = keys[Place(F, i)] /\ Place(F, i) \in F
    BY <1>2, <1>4
  <2> QED  BY <1>1, <2>1
<1>9. /\ DOMAIN GroupRows(q, rows, keys) = DOMAIN each
      /\ \A i \in DOMAIN each :
           GroupRows(q, rows, keys)[i] = At(rows, {p \in DOMAIN rows : keys[p] = each[i]})
  BY <1>3
<1> QED  BY <1>6, <1>7, <1>8, <1>9

-----------------------------------------------------------------------------
(* Folding                                                                  *)

(* What the folded expression evaluates to.                                 *)
FoldedValue(e, a, b) ==
  LET f == FoldBinary(e, a, b)
  IN IF f.kind = "literal" THEN f.value ELSE BinaryValue(f, f.left.value, f.right.value)

LEMMA FoldedLogic ==
  ASSUME NEW e, e.kind \in {"and", "or"}, NEW a \in SqlValue, NEW b \in SqlValue
  PROVE  FoldedValue(e, a, b) = BinaryValue(e, a, b) <=> ~Overruled(e, a, b)
<1>1. ~IsError(a) /\ ~IsError(b)
  BY ValueFacts
<1>2. /\ Truth(a) \in SqlTruth /\ (Truth(a) = "Unknown" <=> IsNull(a))
      /\ Truth(b) \in SqlTruth /\ (Truth(b) = "Unknown" <=> IsNull(b))
  BY DEF Truth, FromBool, SqlTruth
<1>3. TruthValue("Unknown") = Null /\ TruthValue("True") # Null /\ TruthValue("False") # Null
  BY DEF TruthValue, BooleanValue, Null
<1>4. \A x : Literal(x).kind = "literal" /\ Literal(x).value = x
  BY DEF Literal
<1> DEFINE t == IF e.kind = "and" THEN AndTruth(Truth(a), Truth(b))
                ELSE OrTruth(Truth(a), Truth(b))
<1>5. BinaryValue(e, a, b) = TruthValue(t)
  <2>1. CASE e.kind = "and"
    <3>1. BinaryValue(e, a, b) = Junction("False", a, b, AndTruth(Truth(a), Truth(b)))
      BY <2>1 DEF BinaryValue
    <3> QED  BY <1>1, <1>2, <2>1, <3>1 DEF Junction, AndTruth
  <2>2. CASE e.kind = "or"
    <3>1. BinaryValue(e, a, b) = Junction("True", a, b, OrTruth(Truth(a), Truth(b)))
      BY <2>2 DEF BinaryValue
    <3> QED  BY <1>1, <1>2, <2>2, <3>1 DEF Junction, OrTruth
  <2> QED  BY <2>1, <2>2
<1>6. CASE IsNull(a) \/ IsNull(b)
  <2>1. FoldedValue(e, a, b) = Null
    BY <1>4, <1>6 DEF FoldedValue, FoldBinary
  <2>2. TruthValue(t) = Null <=> t = "Unknown"
    BY <1>2, <1>3 DEF AndTruth, OrTruth, SqlTruth
  <2>3. t = "Unknown" <=> ~Overruled(e, a, b)
    BY <1>2, <1>6 DEF Overruled, AndTruth, OrTruth, SqlTruth
  <2> QED  BY <1>5, <2>1, <2>2, <2>3
<1>7. CASE ~(IsNull(a) \/ IsNull(b))
  <2>1. FoldBinary(e, a, b) = Literal(TruthValue(t))
    BY <1>7 DEF FoldBinary
  <2>2. FoldedValue(e, a, b) = BinaryValue(e, a, b)
    BY <1>4, <1>5, <2>1 DEF FoldedValue
  <2> QED  BY <1>7, <2>2 DEF Overruled
<1> QED  BY <1>6, <1>7

LEMMA FoldedCompare ==
  ASSUME NEW e, e.kind = "compare", NEW a \in SqlValue, NEW b \in SqlValue
  PROVE  FoldedValue(e, a, b) = BinaryValue(e, a, b) <=> ~Overruled(e, a, b)
<1>1. ~IsError(a) /\ ~IsError(b)
  BY ValueFacts
<1>2. TruthValue("Unknown") = Null
  BY DEF TruthValue, BooleanValue, Null
<1>3. \A x : Literal(x).kind = "literal" /\ Literal(x).value = x
  BY DEF Literal
<1>4. BinaryValue(e, a, b) = TruthValue(CompareSql(a, e.op, b))
  BY <1>1 DEF BinaryValue
<1>5. ~Overruled(e, a, b)
  BY DEF Overruled
<1>6. CASE IsNull(a) \/ IsNull(b)
  <2>1. FoldedValue(e, a, b) = Null
    BY <1>3, <1>6 DEF FoldedValue, FoldBinary
  <2>2. CompareSql(a, e.op, b) = "Unknown"
    BY <1>6 DEF CompareSql
  <2> QED  BY <1>2, <1>4, <1>5, <2>1, <2>2
<1>7. CASE ~(IsNull(a) \/ IsNull(b))
  <2>1. FoldBinary(e, a, b) = Literal(TruthValue(CompareSql(a, e.op, b)))
    BY <1>7 DEF FoldBinary
  <2> QED  BY <1>3, <1>4, <1>5, <2>1 DEF FoldedValue
<1> QED  BY <1>6, <1>7

LEMMA FoldedArithmetic ==
  ASSUME NEW e, e.kind = "arithmetic", NEW a \in SqlValue, NEW b \in SqlValue,
         NEW kept, kept = [e EXCEPT !.left = Literal(a), !.right = Literal(b)],
         kept.kind = "arithmetic", kept.op = e.op,
         kept.left = Literal(a), kept.right = Literal(b)
  PROVE  FoldedValue(e, a, b) = BinaryValue(e, a, b) <=> ~Overruled(e, a, b)
<1> DEFINE r == Arithmetic(e.op, a, b)
<1>1. ~IsError(a) /\ ~IsError(b)
  BY ValueFacts
<1>2. \A x : Literal(x).kind = "literal" /\ Literal(x).value = x
  BY DEF Literal
<1>3. BinaryValue(e, a, b) = r
  BY <1>1 DEF BinaryValue
<1>4. CASE IsNull(a) \/ IsNull(b)
  <2>1. FoldedValue(e, a, b) = Null
    BY <1>2, <1>4 DEF FoldedValue, FoldBinary
  <2>2. r = IF e.op = "/" /\ Numeric(b) /\ b.v = 0 THEN Error ELSE Null
    BY <1>4 DEF Arithmetic
  <2>3. Error # Null
    BY DEF Error, Null
  <2>4. Overruled(e, a, b) <=> e.op = "/" /\ Numeric(b) /\ b.v = 0
    BY <1>4 DEF Overruled
  <2> QED  BY <1>3, <2>1, <2>2, <2>3, <2>4
<1>5. CASE ~(IsNull(a) \/ IsNull(b))
  <2>1. FoldBinary(e, a, b) = IF IsError(r) THEN kept ELSE Literal(r)
    BY <1>5 DEF FoldBinary
  <2>2. BinaryValue(kept, a, b) = r
    BY <1>1 DEF BinaryValue
  <2>3. FoldedValue(e, a, b) = r
    <3> HIDE DEF r
    <3>1. CASE IsError(r)
      <4>1. FoldBinary(e, a, b) = kept
        BY <2>1, <3>1
      <4> QED  BY <1>2, <2>2, <4>1 DEF FoldedValue
    <3>2. CASE ~IsError(r)
      BY <1>2, <2>1, <3>2 DEF FoldedValue
    <3> QED  BY <3>1, <3>2
  <2>4. ~Overruled(e, a, b)
    BY <1>5 DEF Overruled
  <2> QED  BY <1>3, <2>3, <2>4
<1> QED  BY <1>4, <1>5

(* Folding an operator on two literals keeps its value, errors included,    *)
(* exactly except where one is NULL and the other would have decided AND or *)
(* OR, or is a divisor 0 (fold_binary, eval_expr).                          *)
THEOREM FoldIsExact ==
  ASSUME NEW kind \in {"compare", "and", "or", "arithmetic"}, NEW op, NEW left, NEW right,
         NEW a \in SqlValue, NEW b \in SqlValue
  PROVE  LET e == [kind |-> kind, op |-> op, left |-> left, right |-> right]
         IN FoldedValue(e, a, b) = BinaryValue(e, a, b) <=> ~Overruled(e, a, b)
<1> DEFINE e == [kind |-> kind, op |-> op, left |-> left, right |-> right]
           kept == [e EXCEPT !.left = Literal(a), !.right = Literal(b)]
<1>1. e.kind = kind
  OBVIOUS
<1>2. kept.kind = kind /\ kept.op = e.op /\ kept.left = Literal(a) /\ kept.right = Literal(b)
  OBVIOUS
<1>3. FoldedValue(e, a, b) = BinaryValue(e, a, b) <=> ~Overruled(e, a, b)
  <2>1. kept = [e EXCEPT !.left = Literal(a), !.right = Literal(b)]
    OBVIOUS
  <2> HIDE DEF e, kept
  <2>2. CASE kind \in {"and", "or"}
    BY <1>1, <2>2, FoldedLogic
  <2>3. CASE kind = "compare"
    BY <1>1, <2>3, FoldedCompare
  <2>4. CASE kind = "arithmetic"
    BY <1>1, <1>2, <2>1, <2>4, FoldedArithmetic
  <2> QED  BY <2>2, <2>3, <2>4
<1> QED  BY <1>3


-----------------------------------------------------------------------------
(* ORDER BY and LIMIT                                                       *)

(* ORDER BY compares two values by their numbers, or one is NULL: they have *)
(* one type, or are an integer and a float and no double is rounded.        *)
Alike(a, b) ==
  \/ IsNull(a) \/ IsNull(b) \/ a.type = b.type
  \/ Numeric(a) /\ Numeric(b) /\ AsDouble(a) = a.v /\ AsDouble(b) = b.v

LEMMA AlikeFacts ==
  ASSUME NEW a, NEW b, Alike(a, b), ~IsNull(a), ~IsNull(b)
  PROVE  Comparable(a, b) /\ Against(a, b) = a.v /\ Against(b, a) = b.v
  BY DEF Alike, Comparable, Against

(* Two rows' keys that ORDER BY can compare column by column.               *)
Sortable(ks, ls, orderBy) ==
  \A i \in DOMAIN orderBy : /\ ks[i] \in SqlValue /\ ls[i] \in SqlValue
                            /\ Alike(ks[i], ls[i])

(* The order of two keys in column i.                                       *)
Directed(ks, ls, orderBy, i) ==
  IF orderBy[i].descending THEN -CompareOrder(ks[i], ls[i])
  ELSE CompareOrder(ks[i], ls[i])

(* NULL before the others, and these by value.                              *)
LEMMA OrderFacts ==
  ASSUME NEW a \in SqlValue, NEW b \in SqlValue, NEW c \in SqlValue,
         Alike(a, b), Alike(b, c), Alike(a, c)
  PROVE  /\ CompareOrder(a, b) \in {-1, 0, 1} /\ CompareOrder(b, a) = -CompareOrder(a, b)
         /\ CompareOrder(a, b) <= 0 /\ CompareOrder(b, c) <= 0 =>
              /\ CompareOrder(a, c) <= 0
              /\ CompareOrder(a, c) = 0 <=> CompareOrder(a, b) = 0 /\ CompareOrder(b, c) = 0
<1>1. a.v \in Int /\ b.v \in Int /\ c.v \in Int
  BY ValueFacts
<1>2. ASSUME NEW x, NEW y, Alike(x, y), x.v \in Int, y.v \in Int
      PROVE  /\ CompareOrder(x, y) =
                  IF IsNull(x) THEN IF IsNull(y) THEN 0 ELSE -1
                  ELSE IF IsNull(y) THEN 1
                  ELSE IF x.v < y.v THEN -1 ELSE IF x.v > y.v THEN 1 ELSE 0
             /\ Alike(y, x)
  <2>1. Alike(y, x)
    BY <1>2 DEF Alike
  <2>2. CASE IsNull(x) \/ IsNull(y)
    BY <2>1, <2>2 DEF CompareOrder
  <2>3. CASE ~IsNull(x) /\ ~IsNull(y)
    BY <1>2, <2>1, <2>3, AlikeFacts DEF CompareOrder
  <2> QED  BY <2>2, <2>3
<1>3. Alike(b, a)
  BY <1>1, <1>2
<1> QED  BY <1>1, <1>2, <1>3

LEMMA DirectedFacts ==
  ASSUME NEW ks, NEW ls, NEW ms, NEW orderBy, NEW i \in DOMAIN orderBy,
         Sortable(ks, ls, orderBy), Sortable(ls, ms, orderBy), Sortable(ks, ms, orderBy)
  PROVE  /\ Directed(ks, ls, orderBy, i) \in {-1, 0, 1}
         /\ Directed(ls, ks, orderBy, i) = -Directed(ks, ls, orderBy, i)
         /\ Directed(ks, ls, orderBy, i) = 0 <=> CompareOrder(ks[i], ls[i]) = 0
         /\ Directed(ks, ls, orderBy, i) <= 0 /\ Directed(ls, ms, orderBy, i) <= 0 =>
              /\ Directed(ks, ms, orderBy, i) <= 0
              /\ Directed(ks, ms, orderBy, i) = 0 <=>
                   Directed(ks, ls, orderBy, i) = 0 /\ Directed(ls, ms, orderBy, i) = 0
<1> DEFINE a == ks[i]
           b == ls[i]
           c == ms[i]
<1>1. /\ a \in SqlValue /\ b \in SqlValue /\ c \in SqlValue
      /\ Alike(a, b) /\ Alike(b, c) /\ Alike(a, c) /\ Alike(b, a) /\ Alike(c, b) /\ Alike(c, a)
  BY DEF Sortable, Alike, Comparable
<1> HIDE DEF a, b, c
<1>2. /\ CompareOrder(a, b) \in {-1, 0, 1} /\ CompareOrder(b, a) = -CompareOrder(a, b)
      /\ CompareOrder(a, b) <= 0 /\ CompareOrder(b, c) <= 0 =>
           /\ CompareOrder(a, c) <= 0
           /\ CompareOrder(a, c) = 0 <=> CompareOrder(a, b) = 0 /\ CompareOrder(b, c) = 0
  BY <1>1, OrderFacts
<1>3. /\ CompareOrder(c, b) \in {-1, 0, 1} /\ CompareOrder(b, c) = -CompareOrder(c, b)
      /\ CompareOrder(c, b) <= 0 /\ CompareOrder(b, a) <= 0 =>
           /\ CompareOrder(c, a) <= 0
           /\ CompareOrder(c, a) = 0 <=> CompareOrder(c, b) = 0 /\ CompareOrder(b, a) = 0
  BY <1>1, OrderFacts
<1>4. CompareOrder(a, c) \in {-1, 0, 1} /\ CompareOrder(c, a) = -CompareOrder(a, c)
  BY <1>1, OrderFacts
<1>5. /\ Directed(ks, ls, orderBy, i) = IF orderBy[i].descending THEN -CompareOrder(a, b)
                                        ELSE CompareOrder(a, b)
      /\ Directed(ls, ks, orderBy, i) = IF orderBy[i].descending THEN -CompareOrder(b, a)
                                        ELSE CompareOrder(b, a)
      /\ Directed(ls, ms, orderBy, i) = IF orderBy[i].descending THEN -CompareOrder(b, c)
                                        ELSE CompareOrder(b, c)
      /\ Directed(ks, ms, orderBy, i) = IF orderBy[i].descending THEN -CompareOrder(a, c)
                                        ELSE CompareOrder(a, c)
  BY DEF Directed, a, b, c
<1>6. a = ks[i] /\ b = ls[i]
  BY DEF a, b
<1>7. CASE orderBy[i].descending
  <2>1. /\ Directed(ks, ls, orderBy, i) = CompareOrder(b, a)
        /\ Directed(ls, ms, orderBy, i) = CompareOrder(c, b)
        /\ Directed(ks, ms, orderBy, i) = CompareOrder(c, a)
        /\ Directed(ls, ks, orderBy, i) = CompareOrder(a, b)
    <3>1. Directed(ks, ls, orderBy, i) = -CompareOrder(a, b)
      BY <1>5, <1>7
    <3>2. Directed(ls, ms, orderBy, i) = -CompareOrder(b, c)
      BY <1>5, <1>7
    <3>3. Directed(ks, ms, orderBy, i) = -CompareOrder(a, c)
      BY <1>5, <1>7
    <3>4. Directed(ls, ks, orderBy, i) = -CompareOrder(b, a)
      BY <1>5, <1>7
    <3>5. \A x \in {-1, 0, 1} : \A y : y = -x => x = -y
      OBVIOUS
    <3>6. CompareOrder(a, b) = -CompareOrder(b, a) /\ CompareOrder(c, b) = -CompareOrder(b, c)
      BY <1>2, <1>3, <3>5
    <3> QED  BY <1>2, <1>4, <3>1, <3>2, <3>3, <3>4, <3>6
  <2> QED  BY <1>2, <1>3, <1>6, <2>1
<1>8. CASE ~orderBy[i].descending
  BY <1>2, <1>3, <1>4, <1>5, <1>6, <1>8
<1> QED  BY <1>7, <1>8

(* The first column that tells two keys apart decides.                      *)
Decides(ks, ls, orderBy, i) ==
  /\ i \in DOMAIN orderBy /\ Directed(ks, ls, orderBy, i) # 0
  /\ \A j \in DOMAIN orderBy : j < i => Directed(ks, ls, orderBy, j) = 0

LEMMA FirstDecides ==
  ASSUME NEW ks, NEW ls, NEW orderBy, IsSeq(orderBy), Sortable(ks, ls, orderBy)
  PROVE  \/ /\ \A i \in DOMAIN orderBy : Directed(ks, ls, orderBy, i) = 0
            /\ CompareKeys(ks, ls, orderBy) = 0
         \/ \E i : /\ Decides(ks, ls, orderBy, i)
                   /\ CompareKeys(ks, ls, orderBy) = Directed(ks, ls, orderBy, i)
<1> DEFINE T == {i \in DOMAIN orderBy : Directed(ks, ls, orderBy, i) # 0}
           i == CHOOSE k \in T : \A m \in T : k <= m
<1>1. \A k \in DOMAIN orderBy : Error \notin {ks[k], ls[k]}
  BY ValueFacts DEF Sortable, IsError
<1>2. \A k \in DOMAIN orderBy : Directed(ks, ls, orderBy, k) = 0 <=> CompareOrder(ks[k], ls[k]) = 0
  <2>1. \A k \in DOMAIN orderBy : CompareOrder(ks[k], ls[k]) \in {-1, 0, 1}
    BY DEF CompareOrder
  <2> QED  BY <2>1 DEF Directed
<1> DEFINE U == {k \in DOMAIN orderBy : \/ Error \in {ks[k], ls[k]}
                                        \/ CompareOrder(ks[k], ls[k]) # 0}
           h == CHOOSE k \in U : \A m \in U : k <= m
<1>3. T = U
  BY <1>1, <1>2
<1>4. CompareKeys(ks, ls, orderBy) =
        IF T = {} \/ Error \in {ks[i], ls[i]} THEN 0 ELSE Directed(ks, ls, orderBy, i)
  <2>1. CompareKeys(ks, ls, orderBy) =
          IF U = {} \/ Error \in {ks[h], ls[h]} THEN 0 ELSE Directed(ks, ls, orderBy, h)
    BY DEF CompareKeys, Directed
  <2> HIDE DEF T, U
  <2> QED  BY <1>3, <2>1
<1>5. CASE T = {}
  BY <1>4, <1>5
<1>6. CASE T # {}
  <2>1. T \subseteq DOMAIN orderBy /\ DOMAIN orderBy = 1..Len(orderBy) /\ Len(orderBy) \in Nat
    BY SeqIsFunction
  <2>2. i \in T /\ \A m \in T : i <= m
    <3> HIDE DEF T
    <3>1. T \subseteq Nat
      BY <2>1
    <3>2. \E k \in T : \A m \in T : k <= m
      BY <1>6, <3>1, LeastNumber
    <3> QED  BY <3>2
  <2>3. Decides(ks, ls, orderBy, i)
    <3>1. i \in 1..Len(orderBy) /\ Directed(ks, ls, orderBy, i) # 0
      BY <2>1, <2>2
    <3>2. ASSUME NEW j \in DOMAIN orderBy, j < i PROVE Directed(ks, ls, orderBy, j) = 0
      BY <2>1, <2>2, <3>1, <3>2
    <3> QED  BY <2>1, <3>1, <3>2 DEF Decides
  <2>4. CompareKeys(ks, ls, orderBy) = Directed(ks, ls, orderBy, i)
    BY <1>1, <1>4, <1>6, <2>1, <2>2
  <2> HIDE DEF i
  <2> QED  BY <2>3, <2>4
<1> QED  BY <1>5, <1>6

LEMMA SortableSwap ==
  ASSUME NEW ks, NEW ls, NEW orderBy, Sortable(ks, ls, orderBy)
  PROVE  Sortable(ls, ks, orderBy)
  BY DEF Sortable, Alike, Comparable

LEMMA DecidesValue ==
  ASSUME NEW ks, NEW ls, NEW orderBy, IsSeq(orderBy), Sortable(ks, ls, orderBy)
  PROVE  /\ (\A i \in DOMAIN orderBy : Directed(ks, ls, orderBy, i) = 0)
              => CompareKeys(ks, ls, orderBy) = 0
         /\ \A i : Decides(ks, ls, orderBy, i)
              => CompareKeys(ks, ls, orderBy) = Directed(ks, ls, orderBy, i)
<1>1. DOMAIN orderBy = 1..Len(orderBy) /\ Len(orderBy) \in Nat
  BY SeqIsFunction
<1>2. ASSUME \A i \in DOMAIN orderBy : Directed(ks, ls, orderBy, i) = 0
      PROVE  CompareKeys(ks, ls, orderBy) = 0
  BY <1>2, FirstDecides DEF Decides
<1>3. ASSUME NEW i, Decides(ks, ls, orderBy, i)
      PROVE  CompareKeys(ks, ls, orderBy) = Directed(ks, ls, orderBy, i)
  <2>1. PICK j : /\ Decides(ks, ls, orderBy, j)
                 /\ CompareKeys(ks, ls, orderBy) = Directed(ks, ls, orderBy, j)
    BY <1>3, FirstDecides DEF Decides
  <2>2. i \in 1..Len(orderBy) /\ j \in 1..Len(orderBy)
    BY <1>1, <1>3, <2>1 DEF Decides
  <2>3. ~(i < j) /\ ~(j < i)
    BY <1>3, <2>1 DEF Decides
  <2>4. i = j
    BY <1>1, <2>2, <2>3
  <2> QED  BY <2>1, <2>4
<1> QED  BY <1>2, <1>3

(* Keys are compared alike from both sides.                                 *)
LEMMA KeysSwap ==
  ASSUME NEW ks, NEW ls, NEW orderBy, IsSeq(orderBy), Sortable(ks, ls, orderBy)
  PROVE  /\ CompareKeys(ks, ls, orderBy) \in {-1, 0, 1}
         /\ CompareKeys(ls, ks, orderBy) = -CompareKeys(ks, ls, orderBy)
<1>0. Sortable(ls, ks, orderBy)
  BY SortableSwap
<1>1. \A i \in DOMAIN orderBy :
        /\ Directed(ks, ls, orderBy, i) \in {-1, 0, 1}
        /\ Directed(ls, ks, orderBy, i) = -Directed(ks, ls, orderBy, i)
  <2>1. Sortable(ks, ks, orderBy)
    BY DEF Sortable, Alike, Comparable
  <2> QED  BY <1>0, <2>1, DirectedFacts
<1>2. \A x \in {-1, 0, 1} : x = 0 <=> -x = 0
  OBVIOUS
<1>3. CASE \A i \in DOMAIN orderBy : Directed(ks, ls, orderBy, i) = 0
  <2>1. \A i \in DOMAIN orderBy : Directed(ls, ks, orderBy, i) = 0
    BY <1>1, <1>3, <1>2
  <2>2. CompareKeys(ks, ls, orderBy) = 0 /\ CompareKeys(ls, ks, orderBy) = 0
    BY <1>0, <1>3, <2>1, DecidesValue
  <2> QED  BY <1>2, <2>2
<1>4. CASE ~(\A i \in DOMAIN orderBy : Directed(ks, ls, orderBy, i) = 0)
  <2>1. PICK i : Decides(ks, ls, orderBy, i)
    BY <1>4, FirstDecides
  <2>2. i \in DOMAIN orderBy
    BY <2>1 DEF Decides
  <2>3. Decides(ls, ks, orderBy, i)
    <3>1. \A j \in DOMAIN orderBy : Directed(ls, ks, orderBy, j) = 0 <=> Directed(ks, ls, orderBy, j) = 0
      BY <1>1, <1>2
    <3> QED  BY <2>1, <3>1 DEF Decides
  <2>4. /\ CompareKeys(ks, ls, orderBy) = Directed(ks, ls, orderBy, i)
        /\ CompareKeys(ls, ks, orderBy) = Directed(ls, ks, orderBy, i)
    BY <1>0, <2>1, <2>3, DecidesValue
  <2> QED  BY <1>1, <2>2, <2>4
<1> QED  BY <1>3, <1>4

(* ... and one after the other.                                             *)
LEMMA KeysChain ==
  ASSUME NEW ks, NEW ls, NEW ms, NEW orderBy, IsSeq(orderBy),
         Sortable(ks, ls, orderBy), Sortable(ls, ms, orderBy), Sortable(ks, ms, orderBy),
         CompareKeys(ks, ls, orderBy) <= 0, CompareKeys(ls, ms, orderBy) <= 0
  PROVE  /\ CompareKeys(ks, ms, orderBy) <= 0
         /\ CompareKeys(ks, ms, orderBy) = 0 <=>
              CompareKeys(ks, ls, orderBy) = 0 /\ CompareKeys(ls, ms, orderBy) = 0
<1> DEFINE a(i) == Directed(ks, ls, orderBy, i)
           b(i) == Directed(ls, ms, orderBy, i)
           c(i) == Directed(ks, ms, orderBy, i)
           T == {i \in DOMAIN orderBy : a(i) # 0 \/ b(i) # 0}
<1>1. DOMAIN orderBy = 1..Len(orderBy) /\ Len(orderBy) \in Nat
  BY SeqIsFunction
<1>2. \A i \in DOMAIN orderBy :
        /\ a(i) \in {-1, 0, 1} /\ b(i) \in {-1, 0, 1} /\ c(i) \in {-1, 0, 1}
        /\ a(i) <= 0 /\ b(i) <= 0 => c(i) <= 0 /\ (c(i) = 0 <=> a(i) = 0 /\ b(i) = 0)
  <2>1. Sortable(ls, ks, orderBy) /\ Sortable(ms, ls, orderBy) /\ Sortable(ms, ks, orderBy)
    BY SortableSwap
  <2>2. ASSUME NEW i \in DOMAIN orderBy
        PROVE  /\ a(i) \in {-1, 0, 1}
               /\ a(i) <= 0 /\ b(i) <= 0 => c(i) <= 0 /\ (c(i) = 0 <=> a(i) = 0 /\ b(i) = 0)
    BY DirectedFacts
  <2>3. ASSUME NEW i \in DOMAIN orderBy PROVE b(i) \in {-1, 0, 1}
    BY <2>1, DirectedFacts
  <2>4. ASSUME NEW i \in DOMAIN orderBy PROVE c(i) \in {-1, 0, 1}
    BY <2>1, DirectedFacts
  <2> QED  BY <2>2, <2>3, <2>4
<1>3. CASE T = {}
  <2>1. \A i \in DOMAIN orderBy : a(i) = 0 /\ b(i) = 0
    BY <1>3
  <2>2. \A i \in DOMAIN orderBy : c(i) = 0
    BY <1>2, <2>1
  <2>3. /\ CompareKeys(ks, ls, orderBy) = 0 /\ CompareKeys(ls, ms, orderBy) = 0
        /\ CompareKeys(ks, ms, orderBy) = 0
    BY <2>1, <2>2, DecidesValue
  <2> QED  BY <2>3
<1>4. CASE T # {}
  <2>1. PICK t \in T : \A m \in T : t <= m
    <3>1. T \subseteq Nat
      BY <1>1
    <3> HIDE DEF T
    <3> QED  BY <1>4, <3>1, LeastNumber
  <2>2. t \in DOMAIN orderBy /\ t \in Nat /\ (a(t) # 0 \/ b(t) # 0)
    BY <1>1, <2>1
  <2>3. ASSUME NEW j \in DOMAIN orderBy, j < t PROVE a(j) = 0 /\ b(j) = 0 /\ c(j) = 0
    <3>1. j \notin T
      BY <1>1, <2>1, <2>2, <2>3
    <3> QED  BY <1>2, <3>1
  <2>4. a(t) <= 0 /\ (a(t) # 0 => CompareKeys(ks, ls, orderBy) # 0)
    <3>1. CASE a(t) # 0
      <4>1. Decides(ks, ls, orderBy, t)
        BY <2>2, <2>3, <3>1 DEF Decides
      <4>2. CompareKeys(ks, ls, orderBy) = a(t)
        BY <4>1, DecidesValue
      <4> QED  BY <3>1, <4>2
    <3>2. CASE a(t) = 0
      BY <3>2
    <3> QED  BY <3>1, <3>2
  <2>5. b(t) <= 0 /\ (b(t) # 0 => CompareKeys(ls, ms, orderBy) # 0)
    <3>1. CASE b(t) # 0
      <4>1. Decides(ls, ms, orderBy, t)
        BY <2>2, <2>3, <3>1 DEF Decides
      <4>2. CompareKeys(ls, ms, orderBy) = b(t)
        BY <4>1, DecidesValue
      <4> QED  BY <3>1, <4>2
    <3>2. CASE b(t) = 0
      BY <3>2
    <3> QED  BY <3>1, <3>2
  <2>6. c(t) <= 0 /\ c(t) # 0
    BY <1>2, <2>2, <2>4, <2>5
  <2>7. CompareKeys(ks, ms, orderBy) = c(t)
    <3>1. Decides(ks, ms, orderBy, t)
      BY <2>2, <2>3, <2>6 DEF Decides
    <3> QED  BY <3>1, DecidesValue
  <2> QED  BY <2>2, <2>4, <2>5, <2>6, <2>7
<1> QED  BY <1>3, <1>4

(* Of positions each ahead of the others or behind them, as many are ahead  *)
(* of one as its place says.                                                *)
LEMMA Ranking ==
  ASSUME NEW N \in Nat, NEW ahead \in [1..N -> SUBSET (1..N)],
         \A p \in 1..N : p \notin ahead[p],
         \A p, q \in 1..N : p # q => p \in ahead[q] \/ q \in ahead[p],
         \A p \in 1..N : \A q \in ahead[p] : ahead[q] \subseteq ahead[p]
  PROVE  /\ \A p \in 1..N : Cardinality(ahead[p]) \in 0..(N - 1)
         /\ \A p, q \in 1..N : q \in ahead[p] <=> Cardinality(ahead[q]) < Cardinality(ahead[p])
         /\ \A i \in 1..N : \E p \in 1..N : 1 + Cardinality(ahead[p]) = i
<1>0. IsFiniteSet(1..N) /\ Cardinality(1..N) = N
  BY FS_Interval
<1>1. ASSUME NEW p \in 1..N
      PROVE  /\ ahead[p] \subseteq 1..N /\ IsFiniteSet(ahead[p])
             /\ Cardinality(ahead[p]) \in 0..(N - 1)
  <2>1. ahead[p] \subseteq (1..N) \ {p} /\ ahead[p] \subseteq 1..N
    OBVIOUS
  <2>2. IsFiniteSet((1..N) \ {p}) /\ Cardinality((1..N) \ {p}) = N - 1
    BY <1>0, FS_RemoveElement
  <2>3. IsFiniteSet(ahead[p]) /\ Cardinality(ahead[p]) <= N - 1
    BY <2>1, <2>2, FS_Subset
  <2>4. Cardinality(ahead[p]) \in Nat
    BY <2>3, FS_CardinalityType
  <2> QED  BY <2>1, <2>3, <2>4
<1>2. ASSUME NEW p \in 1..N, NEW q \in ahead[p]
      PROVE  Cardinality(ahead[q]) < Cardinality(ahead[p])
  <2>1. q \in 1..N /\ ahead[q] \subseteq ahead[p] /\ q \notin ahead[q]
    BY <1>1
  <2>2. ahead[q] # ahead[p]
    BY <1>2, <2>1
  <2>3. Cardinality(ahead[q]) <= Cardinality(ahead[p])
        /\ Cardinality(ahead[q]) # Cardinality(ahead[p])
    BY <1>1, <2>1, <2>2, FS_Subset
  <2>4. Cardinality(ahead[q]) \in 0..(N - 1) /\ Cardinality(ahead[p]) \in 0..(N - 1)
    BY <1>1, <2>1
  <2> QED  BY <2>3, <2>4
<1>3. ASSUME NEW p \in 1..N, NEW q \in 1..N, Cardinality(ahead[q]) < Cardinality(ahead[p])
      PROVE  q \in ahead[p]
  <2>1. Cardinality(ahead[q]) \in 0..(N - 1) /\ Cardinality(ahead[p]) \in 0..(N - 1)
    BY <1>1
  <2>2. p # q
    BY <1>3, <2>1
  <2>3. p \notin ahead[q]
    <3>1. SUFFICES ASSUME p \in ahead[q] PROVE FALSE
      OBVIOUS
    <3>2. Cardinality(ahead[p]) < Cardinality(ahead[q])
      BY <1>2, <3>1
    <3> QED  BY <1>3, <2>1, <3>2
  <2> QED  BY <2>2, <2>3
<1>4. ASSUME NEW i \in 1..N PROVE \E p \in 1..N : 1 + Cardinality(ahead[p]) = i
  <2> DEFINE f == [p \in 1..N |-> 1 + Cardinality(ahead[p])]
  <2>1. f \in [1..N -> 1..N]
    <3>1. ASSUME NEW p \in 1..N PROVE 1 + Cardinality(ahead[p]) \in 1..N
      BY <1>1
    <3> QED  BY <3>1
  <2>2. ASSUME NEW p \in 1..N, NEW q \in 1..N, f[p] = f[q] PROVE p = q
    <3>1. Cardinality(ahead[q]) \in 0..(N - 1) /\ Cardinality(ahead[p]) \in 0..(N - 1)
      BY <1>1
    <3>2. Cardinality(ahead[p]) = Cardinality(ahead[q])
      BY <2>2, <3>1
    <3>3. ~(p \in ahead[q]) /\ ~(q \in ahead[p])
      BY <1>2, <3>1, <3>2
    <3> QED  BY <3>3
  <2> HIDE DEF f
  <2>3. f \in Injection(1..N, 1..N)
    BY <2>1, <2>2 DEF Injection, IsInjective
  <2>4. f \in Surjection(1..N, 1..N)
    BY <1>0, <2>3, FS_Injection
  <2>5. PICK p \in 1..N : f[p] = i
    BY <2>4 DEF Surjection
  <2> QED  BY <2>5 DEF f
<1> QED  BY <1>1, <1>2, <1>3, <1>4

(* Every row once, in the order of the keys; equal keys as reversed says.   *)
Sorts(order, rows, keys, orderBy, reversed) ==
  /\ order \in Bijection(DOMAIN rows, DOMAIN rows)
  /\ \A i, j \in DOMAIN rows : i < j =>
       \/ CompareKeys(keys[order[i]], keys[order[j]], orderBy) < 0
       \/ /\ CompareKeys(keys[order[i]], keys[order[j]], orderBy) = 0
          /\ IF reversed THEN order[i] > order[j] ELSE order[i] < order[j]

LEMMA SortedBy ==
  ASSUME NEW rows, IsSeq(rows), NEW keys, NEW orderBy, IsSeq(orderBy), NEW reversed,
         \A p, q \in DOMAIN rows : Sortable(keys[p], keys[q], orderBy)
  PROVE  \E order : /\ Sorts(order, rows, keys, orderBy, reversed)
                    /\ SortBy(rows, keys, orderBy, reversed) = [i \in DOMAIN rows |-> rows[order[i]]]
<1> DEFINE N == Len(rows)
           c(p, q) == CompareKeys(keys[p], keys[q], orderBy)
           before(p, q) == c(p, q) < 0 \/ (c(p, q) = 0 /\ IF reversed THEN p > q ELSE p < q)
           ahead == [p \in 1..N |-> {q \in 1..N : before(q, p)}]
           order == [i \in 1..N |-> CHOOSE p \in 1..N :
                                      1 + Cardinality({q \in 1..N : before(q, p)}) = i]
<1>0. N \in Nat /\ DOMAIN rows = 1..N
  BY SeqIsFunction
<1>1. \A p, q \in 1..N : c(p, q) \in {-1, 0, 1} /\ c(q, p) = -c(p, q)
  BY <1>0, KeysSwap
<1>2. \A p, q, r \in 1..N : c(p, q) <= 0 /\ c(q, r) <= 0 =>
        c(p, r) <= 0 /\ (c(p, r) = 0 <=> c(p, q) = 0 /\ c(q, r) = 0)
  BY <1>0, KeysChain
<1> HIDE DEF N, c
<1>3. \A p \in 1..N : ~before(p, p)
  BY <1>0, <1>1
<1>4. \A p, q \in 1..N : p # q => before(p, q) \/ before(q, p)
  BY <1>0, <1>1
<1>5. ASSUME NEW p \in 1..N, NEW q \in 1..N, NEW r \in 1..N, before(p, q), before(q, r)
      PROVE  before(p, r)
  <2>1. c(p, q) \in {-1, 0, 1} /\ c(q, r) \in {-1, 0, 1} /\ c(p, r) \in {-1, 0, 1}
    BY <1>1
  <2>2. c(p, q) <= 0 /\ c(q, r) <= 0
    BY <1>5, <2>1
  <2>3. c(p, r) <= 0 /\ (c(p, r) = 0 <=> c(p, q) = 0 /\ c(q, r) = 0)
    BY <1>2, <2>2
  <2> QED  BY <1>0, <1>5, <2>1, <2>2, <2>3
<1>6. SortBy(rows, keys, orderBy, reversed) = [i \in DOMAIN rows |-> rows[order[i]]]
  BY <1>0 DEF SortBy, c
<1> HIDE DEF before
<1>7. /\ ahead \in [1..N -> SUBSET (1..N)]
      /\ \A p, q \in 1..N : q \in ahead[p] <=> before(q, p)
  OBVIOUS
<1> DEFINE place(p) == Cardinality(ahead[p])
<1>8. /\ \A p \in 1..N : place(p) \in 0..(N - 1)
      /\ \A p, q \in 1..N : before(q, p) <=> place(q) < place(p)
      /\ \A i \in 1..N : \E p \in 1..N : 1 + place(p) = i
  <2>1. \A p \in 1..N : p \notin ahead[p]
    BY <1>3, <1>7
  <2>2. \A p, q \in 1..N : p # q => p \in ahead[q] \/ q \in ahead[p]
    BY <1>4, <1>7
  <2>3. \A p \in 1..N : \A q \in ahead[p] : ahead[q] \subseteq ahead[p]
    BY <1>5, <1>7
  <2> HIDE DEF ahead
  <2> QED  BY <1>0, <1>7, <2>1, <2>2, <2>3, Ranking
<1> HIDE DEF ahead
<1>9. \A i \in 1..N : order[i] \in 1..N /\ 1 + place(order[i]) = i
  <2>1. \A p \in 1..N : ahead[p] = {q \in 1..N : before(q, p)}
    BY DEF ahead
  <2>2. \A i \in 1..N : \E p \in 1..N : 1 + Cardinality({q \in 1..N : before(q, p)}) = i
    BY <1>8, <2>1
  <2>3. \A i \in 1..N : /\ order[i] \in 1..N
                        /\ 1 + Cardinality({q \in 1..N : before(q, order[i])}) = i
    BY <2>2
  <2> QED  BY <2>1, <2>3
<1> HIDE DEF order
<1>10. order \in Bijection(1..N, 1..N)
  <2>1. order \in [1..N -> 1..N]
    BY <1>9 DEF order
  <2>2. ASSUME NEW i \in 1..N, NEW j \in 1..N, order[i] = order[j] PROVE i = j
    BY <1>9, <2>2
  <2>3. ASSUME NEW p \in 1..N PROVE \E i \in 1..N : order[i] = p
    <3> DEFINE i == 1 + place(p)
    <3>1. place(p) \in 0..(N - 1) /\ i \in 1..N
      <4>1. place(p) \in 0..(N - 1)
        BY <1>8
      <4> HIDE DEF place
      <4> QED  BY <1>0, <4>1
    <3>2. order[i] \in 1..N /\ 1 + place(order[i]) = 1 + place(p)
      BY <1>9, <3>1
    <3>3. place(order[i]) = place(p) /\ place(p) \in Nat
      <4>1. place(order[i]) \in 0..(N - 1)
        BY <1>8, <3>2
      <4> HIDE DEF i, place
      <4> QED  BY <1>0, <3>1, <3>2, <4>1
    <3>4. ~before(p, order[i]) /\ ~before(order[i], p)
      BY <1>8, <3>2, <3>3
    <3>5. order[i] = p
      BY <1>4, <3>2, <3>4
    <3> QED  BY <3>1, <3>5
  <2> QED  BY <2>1, <2>2, <2>3 DEF Bijection, Injection, Surjection, IsInjective
<1>11. ASSUME NEW i \in 1..N, NEW j \in 1..N, i < j PROVE before(order[i], order[j])
  <2>1. /\ order[i] \in 1..N /\ 1 + place(order[i]) = i /\ place(order[i]) \in 0..(N - 1)
        /\ order[j] \in 1..N /\ 1 + place(order[j]) = j /\ place(order[j]) \in 0..(N - 1)
    BY <1>8, <1>9
  <2>2. place(order[i]) < place(order[j])
    BY <1>0, <1>11, <2>1
  <2> QED  BY <1>8, <2>1, <2>2
<1>12. Sorts(order, rows, keys, orderBy, reversed)
  BY <1>0, <1>10, <1>11 DEF Sorts, before, c
<1> QED  BY <1>6, <1>12

(* ORDER BY answers every row once, each after the rows with smaller keys,  *)
(* and rows with equal keys in the order they came in, when the values it   *)
(* orders by compare (execute_query, compare_order_rows).                   *)
THEOREM SortIsStable ==
  ASSUME NEW rows, IsSeq(rows), NEW keys, NEW orderBy, IsSeq(orderBy), orderBy # <<>>,
         \A p, q \in DOMAIN rows : Sortable(keys[p], keys[q], orderBy), NEW reversed
  PROVE  \E order \in Bijection(DOMAIN rows, DOMAIN rows) :
           /\ OrderAndLimit(rows, keys, orderBy, {}, reversed)
                = [i \in DOMAIN rows |-> rows[order[i]]]
           /\ \A i, j \in DOMAIN rows : i < j =>
                \/ CompareKeys(keys[order[i]], keys[order[j]], orderBy) < 0
                \/ /\ CompareKeys(keys[order[i]], keys[order[j]], orderBy) = 0
                   /\ order[i] < order[j]
<1> DEFINE r == reversed /\ \E n \in {} : n < Len(rows)
<1>1. r = FALSE
  OBVIOUS
<1>2. OrderAndLimit(rows, keys, orderBy, {}, reversed) = SortBy(rows, keys, orderBy, r)
  BY DEF OrderAndLimit, Truncate
<1> HIDE DEF r
<1>3. PICK order : /\ Sorts(order, rows, keys, orderBy, r)
                   /\ SortBy(rows, keys, orderBy, r) = [i \in DOMAIN rows |-> rows[order[i]]]
  BY SortedBy
<1> QED  BY <1>1, <1>2, <1>3 DEF Sorts

(* ORDER BY with LIMIT n answers the first n rows (or all) of an order in   *)
(* which every row comes once and none before one with a smaller key, so no *)
(* row left out belongs before one that is kept, whichever way the partial  *)
(* selection leaves equal rows (execute_query, select_nth_unstable_by).     *)
THEOREM TopRowsAreLeast ==
  ASSUME NEW rows, IsSeq(rows), NEW keys, NEW orderBy, IsSeq(orderBy), orderBy # <<>>,
         \A p, q \in DOMAIN rows : Sortable(keys[p], keys[q], orderBy), NEW reversed,
         NEW n \in Nat
  PROVE  \E order \in Bijection(DOMAIN rows, DOMAIN rows) :
           /\ OrderAndLimit(rows, keys, orderBy, {n}, reversed)
                = [i \in 1..(IF n < Len(rows) THEN n ELSE Len(rows)) |-> rows[order[i]]]
           /\ \A i, j \in DOMAIN rows :
                i < j => CompareKeys(keys[order[i]], keys[order[j]], orderBy) <= 0
<1> DEFINE r == reversed /\ \E l \in {n} : l < Len(rows)
           s == SortBy(rows, keys, orderBy, r)
           m == IF n < Len(rows) THEN n ELSE Len(rows)
<1>0. Len(rows) \in Nat /\ DOMAIN rows = 1..Len(rows)
  BY SeqIsFunction
<1>1. OrderAndLimit(rows, keys, orderBy, {n}, reversed) = Truncate(s, {n})
  BY DEF OrderAndLimit
<1> HIDE DEF r
<1>2. PICK order : /\ Sorts(order, rows, keys, orderBy, r)
                   /\ s = [i \in DOMAIN rows |-> rows[order[i]]]
  BY SortedBy
<1>3. IsSeq(s) /\ Len(s) = Len(rows)
  <2>1. s = [i \in 1..Len(rows) |-> s[i]]
    BY <1>0, <1>2
  <2> HIDE DEF s
  <2> QED  BY <1>0, <2>1, FunctionIsSeq
<1>4. Truncate(s, {n}) = SubSeq(s, 1, m)
  <2>1. (CHOOSE l \in {n} : TRUE) = n
    OBVIOUS
  <2> HIDE DEF s
  <2> QED  BY <1>3, <2>1 DEF Truncate
<1>5. m \in 0..Len(rows)
  BY <1>0
<1>6. SubSeq(s, 1, m) = [i \in 1..m |-> s[i]]
  <2>1. PICK S : s \in Seq(S)
    BY <1>3 DEF IsSeq
  <2> HIDE DEF s, m
  <2> QED  BY <1>0, <1>3, <1>5, <2>1
<1>7. SubSeq(s, 1, m) = [i \in 1..m |-> rows[order[i]]]
  <2>1. \A i \in 1..m : s[i] = rows[order[i]]
    BY <1>0, <1>2, <1>5
  <2> HIDE DEF s, m
  <2> QED  BY <1>6, <2>1
<1>8. \A i, j \in DOMAIN rows :
        i < j => CompareKeys(keys[order[i]], keys[order[j]], orderBy) <= 0
  <2>1. ASSUME NEW i \in DOMAIN rows, NEW j \in DOMAIN rows, i < j
        PROVE  CompareKeys(keys[order[i]], keys[order[j]], orderBy) <= 0
    <3>1. order[i] \in DOMAIN rows /\ order[j] \in DOMAIN rows
      BY <1>2 DEF Sorts, Bijection, Injection
    <3>2. CompareKeys(keys[order[i]], keys[order[j]], orderBy) \in {-1, 0, 1}
      BY <3>1, KeysSwap
    <3> QED  BY <1>2, <2>1, <3>2 DEF Sorts
  <2> QED  BY <2>1
<1>9. OrderAndLimit(rows, keys, orderBy, {n}, reversed) = [i \in 1..m |-> rows[order[i]]]
  BY <1>1, <1>4, <1>7
<1> QED  BY <1>2, <1>8, <1>9 DEF Sorts


-----------------------------------------------------------------------------
(* Joins                                                                    *)

(* Pieces put together one after the other.                                 *)
Running(f, J, N) == f = [p \in 0..N |-> IF p = 0 THEN <<>> ELSE f[p - 1] \o J[p]]

LEMMA RunningExists ==
  ASSUME NEW N \in Nat, NEW J
  PROVE  \E f : Running(f, J, N)
<1> DEFINE S == {n \in 0..N : \E f : Running(f, J, n)}
<1>1. 0 \in S
  <2> DEFINE f == [p \in 0..0 |-> <<>>]
  <2>1. f = [p \in 0..0 |-> IF p = 0 THEN <<>> ELSE f[p - 1] \o J[p]]
    OBVIOUS
  <2> HIDE DEF f
  <2>2. Running(f, J, 0)
    BY <2>1 DEF Running
  <2> QED  BY <2>2
<1>2. ASSUME NEW n \in 0..(N - 1), n \in S PROVE n + 1 \in S
  <2>1. PICK f : Running(f, J, n)
    BY <1>2
  <2> DEFINE g == [p \in 0..(n + 1) |-> IF p <= n THEN f[p] ELSE f[n] \o J[n + 1]]
             h == [p \in 0..(n + 1) |-> IF p = 0 THEN <<>> ELSE g[p - 1] \o J[p]]
  <2>2. \A p \in 0..n : f[p] = IF p = 0 THEN <<>> ELSE f[p - 1] \o J[p]
    BY <2>1 DEF Running
  <2>3. ASSUME NEW p \in 0..(n + 1) PROVE g[p] = h[p]
    <3>1. CASE p = 0
      BY <2>2, <3>1
    <3>2. CASE p # 0 /\ p <= n
      <4>1. p \in 0..n /\ p - 1 \in 0..n /\ p - 1 \in 0..(n + 1) /\ p - 1 <= n
        BY <3>2
      <4>2. g[p] = f[p] /\ g[p - 1] = f[p - 1]
        BY <3>2, <4>1
      <4>3. h[p] = g[p - 1] \o J[p]
        BY <3>2
      <4> QED  BY <2>2, <3>2, <4>1, <4>2, <4>3
    <3>3. CASE p = n + 1
      <4>1. p # 0 /\ ~(p <= n) /\ p - 1 = n /\ n \in 0..(n + 1) /\ n <= n
        BY <3>3
      <4>2. g[p] = f[n] \o J[p] /\ g[n] = f[n]
        BY <3>3, <4>1
      <4>3. h[p] = g[n] \o J[p]
        BY <4>1
      <4> QED  BY <4>2, <4>3
    <3> QED  BY <3>1, <3>2, <3>3
  <2>4. g = h
    <3>1. g = [p \in 0..(n + 1) |-> g[p]] /\ h = [p \in 0..(n + 1) |-> h[p]]
      OBVIOUS
    <3> HIDE DEF g, h
    <3> QED  BY <2>3, <3>1
  <2>5. Running(g, J, n + 1)
    <3>1. g = [p \in 0..(n + 1) |-> IF p = 0 THEN <<>> ELSE g[p - 1] \o J[p]]
      BY <2>4
    <3> HIDE DEF g
    <3> QED  BY <3>1 DEF Running
  <2>6. n + 1 \in 0..N
    BY <1>2
  <2> HIDE DEF g
  <2> QED  BY <2>5, <2>6
<1> HIDE DEF S
<1>3. N \in S
  BY <1>1, <1>2, UpTo
<1> QED  BY <1>3 DEF S

(* Pairs by their first row.                                                *)
Through(Q, p) == {x \in Q : x[1] <= p}
Beside(Q, R, p) == {q \in 1..R : <<p, q>> \in Q}

PairsOf(Q, L, R) == Q \subseteq (1..L) \X (1..R)

LEMMA PairsByRow ==
  ASSUME NEW L \in Nat, NEW R \in Nat, NEW Q, PairsOf(Q, L, R)
  PROVE  /\ IsFiniteSet(Q) /\ Through(Q, 0) = {} /\ Through(Q, L) = Q
         /\ \A p \in 0..(L - 1) :
              /\ Cardinality(Through(Q, p)) \in Nat /\ Cardinality(Beside(Q, R, p + 1)) \in Nat
              /\ Cardinality(Through(Q, p + 1))
                   = Cardinality(Through(Q, p)) + Cardinality(Beside(Q, R, p + 1))
<1>0. Q \subseteq (1..L) \X (1..R)
  BY DEF PairsOf
<1>1. IsFiniteSet(Q)
  <2>1. IsFiniteSet(1..L) /\ IsFiniteSet(1..R)
    BY FS_Interval
  <2>2. IsFiniteSet((1..L) \X (1..R))
    BY <2>1, FS_Product
  <2> QED  BY <1>0, <2>2, FS_Subset
<1>2. \A x \in Q : x[1] \in 1..L /\ x[2] \in 1..R /\ x = <<x[1], x[2]>>
  BY <1>0
<1>3. Through(Q, 0) = {} /\ Through(Q, L) = Q
  BY <1>2 DEF Through
<1>4. ASSUME NEW p \in 0..(L - 1)
      PROVE  /\ Cardinality(Through(Q, p)) \in Nat /\ Cardinality(Beside(Q, R, p + 1)) \in Nat
             /\ Cardinality(Through(Q, p + 1))
                  = Cardinality(Through(Q, p)) + Cardinality(Beside(Q, R, p + 1))
  <2> DEFINE B == Beside(Q, R, p + 1)
             T == {x \in Q : x[1] = p + 1}
             f == [q \in B |-> <<p + 1, q>>]
  <2>1. Through(Q, p + 1) = Through(Q, p) \union T /\ Through(Q, p) \intersect T = {}
    BY <1>2 DEF Through
  <2>2. IsFiniteSet(Through(Q, p) \union T)
    <3>1. Through(Q, p) \union T \subseteq Q
      BY DEF Through
    <3> QED  BY <1>1, <3>1, FS_Subset
  <2>3. /\ Cardinality(Through(Q, p)) \in Nat
        /\ Cardinality(Through(Q, p + 1)) = Cardinality(Through(Q, p)) + Cardinality(T)
    <3> HIDE DEF T
    <3> QED  BY <2>1, <2>2, CountParts
  <2>4. IsFiniteSet(B) /\ Cardinality(B) \in Nat
    <3>1. B \subseteq 1..R
      BY DEF Beside
    <3> QED  BY <3>1, PositionsFinite
  <2>5. f \in [B -> T]
    BY <1>0 DEF Beside
  <2>6. \A x, y \in B : f[x] = f[y] => x = y
    OBVIOUS
  <2>7. ASSUME NEW z \in T PROVE \E x \in B : f[x] = z
    <3>1. z[2] \in B /\ z = <<p + 1, z[2]>>
      BY <1>2 DEF Beside
    <3> QED  BY <3>1
  <2>8. Cardinality(T) = Cardinality(B)
    <3> HIDE DEF f, B, T
    <3> QED  BY <2>4, <2>5, <2>6, <2>7, CountByMap
  <2> QED  BY <2>3, <2>4, <2>8
<1> QED  BY <1>1, <1>3, <1>4

(* Rows by their number.                                                    *)
FirstOf(I, p) == {i \in I : i <= p}
RowsIn(I, L) == I \subseteq 1..L

LEMMA RowsByNumber ==
  ASSUME NEW L \in Nat, NEW I, RowsIn(I, L)
  PROVE  /\ IsFiniteSet(I) /\ FirstOf(I, 0) = {} /\ FirstOf(I, L) = I
         /\ \A p \in 0..(L - 1) :
              /\ Cardinality(FirstOf(I, p)) \in Nat
              /\ Cardinality(FirstOf(I, p + 1))
                   = Cardinality(FirstOf(I, p)) + (IF p + 1 \in I THEN 1 ELSE 0)
<1>1. \A i \in I : i \in Int /\ 1 <= i /\ i <= L
  BY DEF RowsIn
<1>2. IsFiniteSet(I)
  BY PositionsFinite DEF RowsIn
<1>3. FirstOf(I, 0) = {} /\ FirstOf(I, L) = I
  <2>1. \A i \in I : ~(i <= 0) /\ i <= L
    BY <1>1
  <2> QED  BY <2>1, Zenon DEF FirstOf
<1>4. ASSUME NEW p \in 0..(L - 1)
      PROVE  /\ Cardinality(FirstOf(I, p)) \in Nat
             /\ Cardinality(FirstOf(I, p + 1))
                  = Cardinality(FirstOf(I, p)) + (IF p + 1 \in I THEN 1 ELSE 0)
  <2> DEFINE A == FirstOf(I, p)
             B == FirstOf(I, p + 1)
  <2>1. IsFiniteSet(A) /\ Cardinality(A) \in Nat
    <3>1. A \subseteq 1..L
      BY DEF FirstOf, RowsIn
    <3> HIDE DEF A
    <3> QED  BY <3>1, PositionsFinite
  <2>2. CASE p + 1 \in I
    <3>1. B = A \union {p + 1} /\ p + 1 \notin A
      <4>1. \A i \in I : i <= p + 1 <=> i <= p \/ i = p + 1
        BY <1>1
      <4>2. ~(p + 1 <= p)
        OBVIOUS
      <4> QED  BY <2>2, <4>1, <4>2, Zenon DEF FirstOf
    <3> HIDE DEF A, B
    <3>2. Cardinality(B) = Cardinality(A) + 1
      BY <2>1, <3>1, FS_AddElement
    <3> QED  BY <2>1, <2>2, <3>2 DEF A, B
  <2>3. CASE p + 1 \notin I
    <3>1. B = A
      <4>1. \A i \in I : i <= p + 1 <=> i <= p
        BY <1>1, <2>3
      <4> QED  BY <4>1, Zenon DEF FirstOf
    <3> HIDE DEF A, B
    <3>2. Cardinality(B) = Cardinality(A) + 0
      BY <2>1, <3>1
    <3> QED  BY <2>1, <2>3, <3>2 DEF A, B
  <2> QED  BY <2>2, <2>3
<1> QED  BY <1>2, <1>3, <1>4

(* The pairs that join, the left rows without a partner, and those of them  *)
(* that make a given row.                                                   *)
Pairs(left, right, matches) ==
  {x \in (DOMAIN left.rows) \X (DOMAIN right.rows) : matches[x[1]][x[2]]}
LoneLeft(left, right, type, matches) ==
  {i \in DOMAIN left.rows : type = "left"
     /\ \A j \in DOMAIN right.rows : <<i, j>> \notin Pairs(left, right, matches)}
LoneRight(left, right, type, matches) ==
  {j \in DOMAIN right.rows : type = "right"
     /\ \A i \in DOMAIN left.rows : <<i, j>> \notin Pairs(left, right, matches)}
PairsMaking(left, right, matches, row) ==
  {x \in Pairs(left, right, matches) : left.rows[x[1]] \o right.rows[x[2]] = row}
LoneMaking(left, right, type, matches, row) ==
  {i \in LoneLeft(left, right, type, matches) :
     left.rows[i] \o Nulls(Len(right.columns)) = row}

LEMMA RowsOfLeftCount ==
  ASSUME NEW left, NEW right, NEW type, NEW matches, IsSeq(left.rows), IsSeq(right.rows),
         NEW p \in DOMAIN left.rows
  PROVE  LET J == RowsOfLeft(left, right, type, matches, p)
             R == Len(right.rows)
         IN /\ IsSeq(J)
            /\ Len(J) = Cardinality(Beside(Pairs(left, right, matches), R, p))
                        + (IF p \in LoneLeft(left, right, type, matches) THEN 1 ELSE 0)
            /\ \A row : Occurrences(J, row) =
                 Cardinality(Beside(PairsMaking(left, right, matches, row), R, p))
                 + (IF p \in LoneMaking(left, right, type, matches, row) THEN 1 ELSE 0)
<1> DEFINE J == RowsOfLeft(left, right, type, matches, p)
           R == Len(right.rows)
           hits == {q \in DOMAIN right.rows : matches[p][q]}
           pad == left.rows[p] \o Nulls(Len(right.columns))
           t == [q \in DOMAIN right.rows |-> left.rows[p] \o right.rows[q]]
           making(row) == Beside(PairsMaking(left, right, matches, row), R, p)
<1>1. R \in Nat /\ DOMAIN right.rows = 1..R
  BY SeqIsFunction
<1>2. hits = Beside(Pairs(left, right, matches), R, p)
  BY <1>1 DEF Beside, Pairs
<1>3. \A row : making(row) = {q \in hits : left.rows[p] \o right.rows[q] = row}
  <2>1. \A row : \A q \in 1..R : <<p, q>> \in PairsMaking(left, right, matches, row)
          <=> matches[p][q] /\ left.rows[p] \o right.rows[q] = row
    BY <1>1 DEF PairsMaking, Pairs
  <2> QED  BY <1>1, <2>1 DEF Beside
<1>4. p \in LoneLeft(left, right, type, matches) <=> hits = {} /\ type = "left"
  BY DEF LoneLeft, Pairs
<1>5. \A row : p \in LoneMaking(left, right, type, matches, row)
        <=> p \in LoneLeft(left, right, type, matches) /\ pad = row
  BY DEF LoneMaking
<1>6. J = IF hits = {} /\ type = "left" THEN <<pad>> ELSE At(t, hits)
  BY DEF RowsOfLeft
<1>7. CASE hits = {} /\ type = "left"
  <2> HIDE DEF J, hits, making, pad
  <2>1. J = <<pad>> /\ IsSeq(J) /\ Len(J) = 1 /\ DOMAIN J = {1} /\ J[1] = pad
    <3>1. J = <<pad>>
      BY <1>6, <1>7
    <3>2. <<pad>> \in Seq({pad})
      OBVIOUS
    <3>3. Len(<<pad>>) = 1 /\ DOMAIN <<pad>> = 1..1 /\ <<pad>>[1] = pad
      OBVIOUS
    <3>4. 1..1 = {1}
      OBVIOUS
    <3>5. IsSeq(<<pad>>)
      BY <3>2 DEF IsSeq
    <3> QED  BY <3>1, <3>3, <3>4, <3>5
  <2>2. Cardinality({}) = 0
    BY FS_EmptySet
  <2>3. ASSUME NEW row
        PROVE  Occurrences(J, row) = Cardinality(making(row))
                 + (IF p \in LoneMaking(left, right, type, matches, row) THEN 1 ELSE 0)
    <3>1. making(row) = {}
      BY <1>3, <1>7
    <3>2. CASE pad = row
      <4>1. {i \in DOMAIN J : J[i] = row} = {1}
        BY <2>1, <3>2
      <4>2. Occurrences(J, row) = 1
        BY <4>1, FS_Singleton DEF Occurrences
      <4> QED  BY <1>4, <1>5, <1>7, <2>2, <3>1, <3>2, <4>2
    <3>3. CASE pad # row
      <4>1. {i \in DOMAIN J : J[i] = row} = {}
        BY <2>1, <3>3
      <4>2. Occurrences(J, row) = 0
        BY <2>2, <4>1 DEF Occurrences
      <4> QED  BY <1>4, <1>5, <1>7, <2>2, <3>1, <3>3, <4>2
    <3> QED  BY <3>2, <3>3
  <2>4. Len(J) = Cardinality(Beside(Pairs(left, right, matches), R, p))
                 + (IF p \in LoneLeft(left, right, type, matches) THEN 1 ELSE 0)
    BY <1>2, <1>4, <1>7, <2>1, <2>2
  <2> QED  BY <2>1, <2>3, <2>4 DEF J, making
<1>8. CASE ~(hits = {} /\ type = "left")
  <2>1. hits \subseteq 1..R
    BY <1>1
  <2>2. \A q \in hits : t[q] = left.rows[p] \o right.rows[q]
    OBVIOUS
  <2> HIDE DEF J, hits, making, pad, t
  <2>3. J = At(t, hits)
    BY <1>6, <1>8
  <2>4. IsSeq(J) /\ Len(J) = Cardinality(hits) /\ Cardinality(hits) \in Nat
    BY <1>1, <2>1, <2>3, AtFacts
  <2>5. ASSUME NEW row PROVE Occurrences(J, row) = Cardinality(making(row)) + 0
    <3>1. Occurrences(J, row) = Cardinality({q \in hits : t[q] = row})
      <4>1. Occurrences(At(t, hits), row) = Cardinality(Chosen(t, hits, row))
        BY <1>1, <2>1, OccurrencesAt
      <4> QED  BY <2>3, <4>1 DEF Chosen
    <3>2. making(row) = {q \in hits : t[q] = row}
      BY <1>3, <2>2
    <3>3. Occurrences(J, row) \in Nat
      BY <2>4, OccurrencesType
    <3> QED  BY <3>1, <3>2, <3>3
  <2>6. /\ p \notin LoneLeft(left, right, type, matches)
        /\ \A row : p \notin LoneMaking(left, right, type, matches, row)
    BY <1>4, <1>5, <1>8
  <2> QED  BY <1>2, <2>4, <2>5, <2>6 DEF J, making
<1> QED  BY <1>7, <1>8

(* A join has a row for every pair that matches, as often as the pair       *)
(* occurs, one for every left row without a partner if it is a LEFT JOIN,   *)
(* one for every right row without a partner if it is a RIGHT JOIN, and no  *)
(* other, for relations of any size (join_relations, hash_join).            *)
THEOREM JoinKeepsEveryPair ==
  ASSUME NEW left, NEW right, NEW type, NEW matches, IsSeq(left.rows), IsSeq(right.rows)
  PROVE  JoinRows(Combine(left, right, type, matches), left, right, type,
                  {x \in (DOMAIN left.rows) \X (DOMAIN right.rows) : matches[x[1]][x[2]]})
<1> DEFINE L == Len(left.rows)
           R == Len(right.rows)
           of(p) == RowsOfLeft(left, right, type, matches, p)
           upto == CHOOSE f : f = [p \in 0..L |-> IF p = 0 THEN <<>> ELSE f[p - 1] \o of(p)]
           over == RowsOfRight(left, right, type, matches)
           Q == Pairs(left, right, matches)
           I == LoneLeft(left, right, type, matches)
           A == LoneRight(left, right, type, matches)
           M(row) == PairsMaking(left, right, matches, row)
           N(row) == LoneMaking(left, right, type, matches, row)
           O(row) == {j \in A : Nulls(Len(left.columns)) \o right.rows[j] = row}
<1>1. /\ L \in Nat /\ DOMAIN left.rows = 1..L /\ R \in Nat /\ DOMAIN right.rows = 1..R
  BY SeqIsFunction
<1>2. Combine(left, right, type, matches) = upto[L] \o over
  BY DEF Combine
<1>3. /\ upto[0] = <<>>
      /\ \A p \in 0..(L - 1) : upto[p + 1] = upto[p] \o of(p + 1)
  <2> DEFINE J == [p \in 1..L |-> of(p)]
  <2> HIDE DEF L, of
  <2>1. ASSUME NEW f, Running(f, J, L)
        PROVE  f = [p \in 0..L |-> IF p = 0 THEN <<>> ELSE f[p - 1] \o of(p)]
    <3>1. ASSUME NEW p \in 0..L
          PROVE  (IF p = 0 THEN <<>> ELSE f[p - 1] \o J[p])
                   = (IF p = 0 THEN <<>> ELSE f[p - 1] \o of(p))
      <4>1. p # 0 => p \in 1..L
        BY <1>1
      <4> QED  BY <4>1
    <3> HIDE DEF J
    <3>2. f = [p \in 0..L |-> IF p = 0 THEN <<>> ELSE f[p - 1] \o J[p]]
      BY <2>1 DEF Running
    <3>3. [p \in 0..L |-> IF p = 0 THEN <<>> ELSE f[p - 1] \o J[p]]
            = [p \in 0..L |-> IF p = 0 THEN <<>> ELSE f[p - 1] \o of(p)]
      BY <3>1, Zenon
    <3> QED  BY <3>2, <3>3, Zenon
  <2> HIDE DEF J
  <2>2. \E f : f = [p \in 0..L |-> IF p = 0 THEN <<>> ELSE f[p - 1] \o of(p)]
    <3>1. PICK f : Running(f, J, L)
      BY <1>1, RunningExists
    <3> QED  BY <2>1, <3>1
  <2>3. upto = [p \in 0..L |-> IF p = 0 THEN <<>> ELSE upto[p - 1] \o of(p)]
    BY <2>2
  <2> HIDE DEF upto
  <2>4. \A p \in 0..L : upto[p] = IF p = 0 THEN <<>> ELSE upto[p - 1] \o of(p)
    BY <2>3
  <2>5. ASSUME NEW p \in 0..(L - 1) PROVE upto[p + 1] = upto[p] \o of(p + 1)
    <3>1. p + 1 \in 0..L /\ p + 1 # 0 /\ (p + 1) - 1 = p
      BY <1>1
    <3>2. upto[p + 1] = upto[(p + 1) - 1] \o of(p + 1)
      BY <2>4, <3>1
    <3> QED  BY <3>1, <3>2
  <2>6. 0 \in 0..L
    BY <1>1
  <2> QED  BY <2>4, <2>5, <2>6
<1> HIDE DEF upto
<1>4. ASSUME NEW p \in 1..L
      PROVE  /\ IsSeq(of(p))
             /\ Len(of(p)) = Cardinality(Beside(Q, R, p)) + (IF p \in I THEN 1 ELSE 0)
             /\ \A row : Occurrences(of(p), row) =
                  Cardinality(Beside(M(row), R, p)) + (IF p \in N(row) THEN 1 ELSE 0)
  BY <1>1, RowsOfLeftCount
<1>5. /\ PairsOf(Q, L, R) /\ RowsIn(I, L)
      /\ \A row : PairsOf(M(row), L, R) /\ RowsIn(N(row), L)
  BY <1>1 DEF PairsOf, RowsIn, Pairs, LoneLeft, PairsMaking, LoneMaking
<1> DEFINE Counted(p) ==
             /\ IsSeq(upto[p])
             /\ Len(upto[p]) = Cardinality(Through(Q, p)) + Cardinality(FirstOf(I, p))
             /\ \A row : Occurrences(upto[p], row) =
                  Cardinality(Through(M(row), p)) + Cardinality(FirstOf(N(row), p))
<1> HIDE DEF L, R, of, over, Q, I, M, N
<1>6. Counted(0)
  <2>1. Cardinality({}) = 0
    BY FS_EmptySet
  <2>2. upto[0] = <<>> /\ IsSeq(upto[0]) /\ Len(upto[0]) = 0 /\ DOMAIN upto[0] = {}
    <3>1. <<>> \in Seq({}) /\ Len(<<>>) = 0 /\ DOMAIN <<>> = {}
      OBVIOUS
    <3> QED  BY <1>3, <3>1 DEF IsSeq
  <2>3. Through(Q, 0) = {} /\ FirstOf(I, 0) = {}
    BY <1>1, <1>5, PairsByRow, RowsByNumber
  <2>4. ASSUME NEW row
        PROVE  Occurrences(upto[0], row) =
                 Cardinality(Through(M(row), 0)) + Cardinality(FirstOf(N(row), 0))
    <3>1. Through(M(row), 0) = {} /\ FirstOf(N(row), 0) = {}
      BY <1>1, <1>5, PairsByRow, RowsByNumber
    <3>2. {i \in DOMAIN upto[0] : upto[0][i] = row} = {}
      BY <2>2
    <3>3. Occurrences(upto[0], row) = 0
      BY <2>1, <3>2 DEF Occurrences
    <3> QED  BY <2>1, <3>1, <3>3
  <2>5. Len(upto[0]) = Cardinality(Through(Q, 0)) + Cardinality(FirstOf(I, 0))
    <3>1. Cardinality(Through(Q, 0)) = 0 /\ Cardinality(FirstOf(I, 0)) = 0
      BY <2>1, <2>3
    <3>2. Len(upto[0]) = 0
      BY <2>2
    <3> QED  BY <3>1, <3>2
  <2> QED  BY <2>2, <2>4, <2>5
<1>7. ASSUME NEW p \in 0..(L - 1), Counted(p) PROVE Counted(p + 1)
  <2>1. p + 1 \in 1..L
    BY <1>1
  <2>2. /\ IsSeq(upto[p]) /\ IsSeq(of(p + 1)) /\ upto[p + 1] = upto[p] \o of(p + 1)
    BY <1>3, <1>4, <1>7, <2>1
  <2>3. /\ IsSeq(upto[p + 1]) /\ Len(upto[p + 1]) = Len(upto[p]) + Len(of(p + 1))
    BY <2>2, ConcatFacts
  <2>4. Len(upto[p + 1]) = Cardinality(Through(Q, p + 1)) + Cardinality(FirstOf(I, p + 1))
    <3>1. /\ Cardinality(Through(Q, p)) \in Nat /\ Cardinality(Beside(Q, R, p + 1)) \in Nat
          /\ Cardinality(Through(Q, p + 1))
               = Cardinality(Through(Q, p)) + Cardinality(Beside(Q, R, p + 1))
      BY <1>1, <1>5, PairsByRow
    <3>2. /\ Cardinality(FirstOf(I, p)) \in Nat
          /\ Cardinality(FirstOf(I, p + 1))
               = Cardinality(FirstOf(I, p)) + (IF p + 1 \in I THEN 1 ELSE 0)
      BY <1>1, <1>5, RowsByNumber
    <3>3. /\ Len(upto[p]) = Cardinality(Through(Q, p)) + Cardinality(FirstOf(I, p))
          /\ Len(of(p + 1)) = Cardinality(Beside(Q, R, p + 1)) + (IF p + 1 \in I THEN 1 ELSE 0)
      BY <1>4, <1>7, <2>1
    <3> QED  BY <2>3, <3>1, <3>2, <3>3
  <2>5. ASSUME NEW row
        PROVE  Occurrences(upto[p + 1], row) =
                 Cardinality(Through(M(row), p + 1)) + Cardinality(FirstOf(N(row), p + 1))
    <3>1. /\ Cardinality(Through(M(row), p)) \in Nat /\ Cardinality(Beside(M(row), R, p + 1)) \in Nat
          /\ Cardinality(Through(M(row), p + 1))
               = Cardinality(Through(M(row), p)) + Cardinality(Beside(M(row), R, p + 1))
      BY <1>1, <1>5, PairsByRow
    <3>2. /\ Cardinality(FirstOf(N(row), p)) \in Nat
          /\ Cardinality(FirstOf(N(row), p + 1))
               = Cardinality(FirstOf(N(row), p)) + (IF p + 1 \in N(row) THEN 1 ELSE 0)
      BY <1>1, <1>5, RowsByNumber
    <3>3. /\ Occurrences(upto[p], row)
               = Cardinality(Through(M(row), p)) + Cardinality(FirstOf(N(row), p))
          /\ Occurrences(of(p + 1), row)
               = Cardinality(Beside(M(row), R, p + 1)) + (IF p + 1 \in N(row) THEN 1 ELSE 0)
      BY <1>4, <1>7, <2>1
    <3>4. Occurrences(upto[p + 1], row) = Occurrences(upto[p], row) + Occurrences(of(p + 1), row)
      BY <2>2, OccurrencesConcat
    <3> QED  BY <3>1, <3>2, <3>3, <3>4
  <2> QED  BY <2>3, <2>4, <2>5
<1>8. Counted(L)
  <2> DEFINE S == {p \in 0..L : Counted(p)}
  <2> HIDE DEF Counted
  <2>1. 0 \in S /\ \A p \in 0..(L - 1) : p \in S => p + 1 \in S
    BY <1>1, <1>6, <1>7
  <2> HIDE DEF S
  <2>2. L \in S
    <3>1. L \in 0..L
      BY <1>1
    <3> QED  BY <1>1, <2>1, <3>1, UpTo
  <2> QED  BY <2>2 DEF S
<1>9. /\ IsSeq(upto[L]) /\ Len(upto[L]) = Cardinality(Q) + Cardinality(I)
      /\ \A row : Occurrences(upto[L], row) = Cardinality(M(row)) + Cardinality(N(row))
  <2>1. Through(Q, L) = Q /\ FirstOf(I, L) = I
    BY <1>1, <1>5, PairsByRow, RowsByNumber
  <2>2. \A row : Through(M(row), L) = M(row) /\ FirstOf(N(row), L) = N(row)
    BY <1>1, <1>5, PairsByRow, RowsByNumber
  <2> QED  BY <1>8, <2>1, <2>2
<1>10. /\ IsSeq(over) /\ Len(over) = Cardinality(A)
       /\ \A row : Occurrences(over, row) = Cardinality(O(row))
  <2> DEFINE t == [q \in DOMAIN right.rows |-> Nulls(Len(left.columns)) \o right.rows[q]]
  <2>1. A = {q \in DOMAIN right.rows : type = "right"
               /\ \A p \in DOMAIN left.rows : ~matches[p][q]}
    BY DEF LoneRight, Pairs
  <2>2. over = At(t, A)
    BY <2>1 DEF over, RowsOfRight
  <2>3. A \subseteq 1..R /\ \A q \in A : t[q] = Nulls(Len(left.columns)) \o right.rows[q]
    BY <1>1, <2>1
  <2> HIDE DEF A, t
  <2>4. \A row : Chosen(t, A, row) = O(row)
    BY <2>3 DEF Chosen
  <2>5. \A row : Occurrences(At(t, A), row) = Cardinality(Chosen(t, A, row))
    BY <1>1, <2>3, OccurrencesAt
  <2>6. IsSeq(At(t, A)) /\ Len(At(t, A)) = Cardinality(A)
    BY <1>1, <2>3, AtFacts
  <2> HIDE DEF O
  <2> QED  BY <2>2, <2>4, <2>5, <2>6
<1> HIDE DEF A, O
<1> DEFINE rows == Combine(left, right, type, matches)
<1>11. Len(rows) = Cardinality(Q) + Cardinality(I) + Cardinality(A)
  <2>1. Len(rows) = Len(upto[L]) + Len(over)
    BY <1>2, <1>9, <1>10, ConcatFacts
  <2> QED  BY <1>9, <1>10, <2>1
<1>12. \A row : Occurrences(rows, row)
         = Cardinality(M(row)) + Cardinality(N(row)) + Cardinality(O(row))
  BY <1>2, <1>9, <1>10, OccurrencesConcat
<1> HIDE DEF rows
<1>13. JoinRows(rows, left, right, type, Q)
  BY <1>11, <1>12 DEF JoinRows, I, A, M, N, O, Q, LoneLeft, LoneRight, PairsMaking, LoneMaking
<1> QED  BY <1>13 DEF rows, Q, Pairs
=============================================================================
