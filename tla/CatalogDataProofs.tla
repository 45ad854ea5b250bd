------------------------- MODULE CatalogDataProofs -------------------------
(***************************************************************************)
(* Theorems about the schemas and rows of Catalog, for all definitions,    *)
(* statements, values and bounds: every value has the type of its column,  *)
(* schemas are closed under every list of ALTER operations, keys are       *)
(* unique, and an index finds what a scan finds.                           *)
(***************************************************************************)
EXTENDS CatalogProofs

---------------------------------------------------------------------------
(* The invariant of one table *)

IndexDefFields == {"name", "columns", "unique", "automatic"}

Exist(columns, cols) == \A i \in DOMAIN cols : cols[i] \in Names(columns)

\* No two columns share a name.
ColumnsInv(columns) ==
  /\ IsSeq(columns) /\ \A i \in DOMAIN columns : IsColumnDef(columns[i])
  /\ \A i, j \in DOMAIN columns : columns[i].name = columns[j].name => i = j

\* A value NULL or of exactly the type of its column.
Typed(column, v) == v \in SqlValue /\ (v = Null \/ v.type = column.type)

RowInv(columns, row) ==
  /\ IsSeq(row) /\ Len(row) = Len(columns)
  /\ \A i \in DOMAIN columns : Typed(columns[i], row[i])

RowsInv(columns, rows) == \A p \in DOMAIN rows : RowInv(columns, rows[p])

ConstraintInv(columns, c) ==
  DOMAIN c = ConstraintFields /\ IsSeq(c.columns) /\ Exist(columns, c.columns)

ConstraintsInv(columns, constraints) ==
  \A k \in DOMAIN constraints : ConstraintInv(columns, constraints[k])

\* Between two ALTER operations the automatic indexes may lag behind.
IndexDefInv(columns, x) ==
  /\ DOMAIN x = IndexDefFields /\ IsSeq(x.columns)
  /\ ~x.automatic => Exist(columns, x.columns)

IndexesInv(columns, indexes) ==
  \A k \in DOMAIN indexes : IndexDefInv(columns, indexes[k])

Data(t) ==
  /\ ColumnsInv(t.columns) /\ RowsInv(t.columns, t.rows)
  /\ ConstraintsInv(t.columns, t.constraints) /\ IndexesInv(t.columns, t.indexes)

\* What the refreshed metadata adds.
NotNull(columns, c) ==
  c.kind = "PrimaryKey" =>
    \A i \in DOMAIN columns : columns[i].name \in Range(c.columns) => ~columns[i].nullable

Refreshed(t) ==
  /\ \A k \in DOMAIN t.constraints : NotNull(t.columns, t.constraints[k])
  /\ \A k \in DOMAIN t.indexes : Exist(t.columns, t.indexes[k].columns)

DataInv(t) == Data(t) /\ Refreshed(t)

CatData(cat) == \A n \in DOMAIN cat : n \in TableNames /\ DataInv(cat[n])

---------------------------------------------------------------------------
(* Values and columns *)

\* coerce_to gives a value of the type, or NULL.
LEMMA CoerceFacts ==
  ASSUME NEW v \in SqlValue, NEW type \in DataType
  PROVE  /\ CoerceTo(v, type) \in SqlValue
         /\ CoerceTo(v, type) = Null \/ CoerceTo(v, type).type = type
         /\ IsNull(v) <=> v = Null
         /\ IsNull(CoerceTo(v, type)) <=> IsNull(v)
  <1>1. CASE v = Null
    BY <1>1 DEF SqlValue, Null, IsNull, CoerceTo
  <1>2. CASE v \in [type : DataType, v : Int]
    <2>1. v.type \in DataType /\ "Null" \notin DataType
      BY <1>2 DEF DataType
    <2>2. ~IsNull(v) /\ v # Null
      BY <2>1 DEF IsNull, Null
    <2>3. AsDouble(v) \in Int
      BY <1>2, RoundingAssumption DEF AsDouble
    <2>4. CoerceTo(v, type) \in [type : DataType, v : Int] /\ CoerceTo(v, type).type = type
      BY <1>2, <2>2, <2>3 DEF CoerceTo
    <2>5. ~IsNull(CoerceTo(v, type))
      BY <2>1, <2>4 DEF IsNull
    <2> QED BY <2>2, <2>4, <2>5 DEF SqlValue
  <1> QED BY <1>1, <1>2 DEF SqlValue

\* A value is NULL or has a type.
LEMMA ValueFacts ==
  ASSUME NEW v \in SqlValue
  PROVE  /\ IsNull(v) <=> v = Null
         /\ v # Null => v \in [type : DataType, v : Int] /\ v.type \in DataType
  BY DEF SqlValue, IsNull, Null, DataType

\* The position of a column.
LEMMA ColumnFacts ==
  ASSUME NEW t, NEW c, HasColumn(t, c)
  PROVE  ColumnIndex(t, c) \in DOMAIN t.columns /\ t.columns[ColumnIndex(t, c)].name = c
  <1>1. \E i \in DOMAIN t.columns : t.columns[i].name = c
    BY DEF HasColumn, Names
  <1> QED BY <1>1 DEF ColumnIndex

\* The columns that exist.
LEMMA ExistMeans ==
  ASSUME NEW t, NEW cols
  PROVE  HasColumns(t, cols) <=> Exist(t.columns, cols)
  BY DEF HasColumns, HasColumn, Exist

\* The same columns but for their options.
SameColumns(a, b) ==
  /\ Len(b) = Len(a) /\ DOMAIN b = DOMAIN a
  /\ \A i \in DOMAIN a :
       b[i].name = a[i].name /\ b[i].type = a[i].type /\ b[i].default = a[i].default

\* Names and types are what the rest of a table depends on.
LEMMA SameColumnsKeep ==
  ASSUME NEW a, NEW b, SameColumns(a, b), IsColumns(b), ColumnsInv(a)
  PROVE  /\ ColumnsInv(b) /\ Names(b) = Names(a)
         /\ \A rows : RowsInv(a, rows) => RowsInv(b, rows)
         /\ \A cols : Exist(a, cols) => Exist(b, cols)
         /\ \A cons : ConstraintsInv(a, cons) => ConstraintsInv(b, cons)
         /\ \A xs : IndexesInv(a, xs) => IndexesInv(b, xs)
  <1>1. ColumnsInv(b)
    BY DEF ColumnsInv, SameColumns, IsColumns, IsColumnDef
  <1>2. Names(b) = Names(a)
    BY DEF Names, SameColumns
  <1>3. \A cols : Exist(a, cols) => Exist(b, cols)
    BY <1>2 DEF Exist
  <1>4. \A row : RowInv(a, row) => RowInv(b, row)
    BY DEF RowInv, Typed, SameColumns
  <1>5. \A rows : RowsInv(a, rows) => RowsInv(b, rows)
    BY <1>4 DEF RowsInv
  <1>6. \A cons : ConstraintsInv(a, cons) => ConstraintsInv(b, cons)
    BY <1>3 DEF ConstraintsInv, ConstraintInv
  <1>7. \A xs : IndexesInv(a, xs) => IndexesInv(b, xs)
    BY <1>3 DEF IndexesInv, IndexDefInv
  <1> QED BY <1>1, <1>2, <1>3, <1>5, <1>6, <1>7

\* One constraint changes the options of columns only; what is NOT NULL stays so
\* and the columns of a PRIMARY KEY become so.
LEMMA MarkConstraintFacts ==
  ASSUME NEW columns, IsColumns(columns), NEW c
  PROVE  LET d == MarkConstraint(columns, c) IN
         /\ IsColumns(d) /\ SameColumns(columns, d) /\ NotNull(d, c)
         /\ \A i \in DOMAIN columns : ~columns[i].nullable => ~d[i].nullable
  <1> DEFINE d == MarkConstraint(columns, c)
  <1>1. d = [i \in DOMAIN columns |-> d[i]]
    BY DEF MarkConstraint
  <1>2. ASSUME NEW i \in DOMAIN columns
        PROVE  /\ DOMAIN d[i] = ColumnFields
               /\ d[i].name = columns[i].name /\ d[i].type = columns[i].type
               /\ d[i].default = columns[i].default
               /\ ~columns[i].nullable => ~d[i].nullable
               /\ c.kind = "PrimaryKey" /\ columns[i].name \in Range(c.columns) => ~d[i].nullable
    <2>1. DOMAIN columns[i] = ColumnFields
      BY DEF IsColumns
    <2>2. d[i] = IF c.kind = "Unique" /\ c.columns = <<columns[i].name>>
                 THEN [columns[i] EXCEPT !.unique = TRUE]
                 ELSE IF c.kind = "PrimaryKey" /\ columns[i].name \in Range(c.columns)
                 THEN [columns[i] EXCEPT !.nullable = FALSE, !.pk = Len(c.columns) = 1,
                                         !.unique = Len(c.columns) = 1]
                 ELSE columns[i]
      BY DEF MarkConstraint, MarkPrimaryKey
    <2> HIDE DEF d
    <2> QED BY <2>1, <2>2 DEF ColumnFields
  <1> HIDE DEF d
  <1>3. IsColumns(d) /\ DOMAIN d = DOMAIN columns /\ Len(d) = Len(columns)
    BY <1>1, <1>2, ColumnsEdited, MappedIsSeq DEF IsColumns
  <1>4. NotNull(d, c)
    BY <1>2, <1>3 DEF NotNull
  <1>5. SameColumns(columns, d)
    BY <1>2, <1>3 DEF SameColumns
  <1> QED BY <1>2, <1>3, <1>4, <1>5 DEF d

\* So do all of them one after the other.
LEMMA MarkedColumns ==
  ASSUME NEW columns, IsColumns(columns), NEW constraints, IsSeq(constraints)
  PROVE  LET d == Marked(columns, constraints) IN
         /\ IsColumns(d) /\ SameColumns(columns, d)
         /\ \A k \in DOMAIN constraints : NotNull(d, constraints[k])
  <1> DEFINE N == Len(constraints)
  <1>0. N \in Nat /\ 0 \in 0..N /\ N \in 0..N /\ DOMAIN constraints = 1..N
    BY SeqIsFunction
  <1>1. PICK m : /\ Marked(columns, constraints) = m[N]
                 /\ m[0] = columns
                 /\ \A k \in 0..(N - 1) : m[k + 1] = MarkConstraint(m[k], constraints[k + 1])
    BY MarkedSteps
  <1> DEFINE S == {k \in 0..N : /\ IsColumns(m[k]) /\ SameColumns(columns, m[k])
                                /\ \A j \in 1..k : NotNull(m[k], constraints[j])}
  <1>2. 0 \in S
    BY <1>0, <1>1 DEF SameColumns
  <1>3. ASSUME NEW k \in 0..(N - 1), k \in S PROVE k + 1 \in S
    <2> DEFINE d == m[k + 1]
    <2>1. d = MarkConstraint(m[k], constraints[k + 1])
      BY <1>1
    <2>2. /\ IsColumns(m[k]) /\ SameColumns(columns, m[k])
          /\ \A j \in 1..k : NotNull(m[k], constraints[j])
      BY <1>3
    <2>3. /\ IsColumns(d) /\ SameColumns(m[k], d) /\ NotNull(d, constraints[k + 1])
          /\ \A i \in DOMAIN m[k] : ~m[k][i].nullable => ~d[i].nullable
      BY <2>1, <2>2, MarkConstraintFacts
    <2> HIDE DEF d
    <2>4. SameColumns(columns, d)
      BY <2>2, <2>3 DEF SameColumns
    <2>5. ASSUME NEW j \in 1..k PROVE NotNull(d, constraints[j])
      BY <2>2, <2>3 DEF NotNull, SameColumns
    <2>6. \A j \in 1..(k + 1) : j \in 1..k \/ j = k + 1
      BY <1>0
    <2>7. k + 1 \in 0..N
      BY <1>0
    <2> QED BY <2>3, <2>4, <2>5, <2>6, <2>7 DEF d
  <1>4. N \in S
    <2> HIDE DEF S
    <2> QED BY <1>0, <1>2, <1>3, UpTo
  <1> QED BY <1>0, <1>1, <1>4

---------------------------------------------------------------------------
(* Indexes and metadata *)

\* At leaves out none of the chosen elements.
LEMMA AtOnto ==
  ASSUME NEW s, IsSeq(s), NEW K, K \subseteq DOMAIN s, NEW p \in K
  PROVE  \E i \in DOMAIN At(s, K) : At(s, K)[i] = s[p]
  <1>1. Len(s) \in Nat /\ K \subseteq 1..Len(s)
    BY SeqIsFunction
  <1>2. PICK i \in 1..Cardinality(K) : Place(K, i) = p
    BY <1>1, PlaceOnto
  <1>3. /\ DOMAIN At(s, K) = 1..Cardinality(K)
        /\ \A j \in 1..Cardinality(K) : At(s, K)[j] = s[Place(K, j)]
    BY <1>1, AtFacts
  <1> QED BY <1>2, <1>3

\* A sequence of one element.
LEMMA Singleton ==
  ASSUME NEW x
  PROVE  IsSeq(<<x>>) /\ DOMAIN <<x>> = {1} /\ <<x>>[1] = x
  <1>1. <<x>> \in Seq({x}) /\ Len(<<x>>) = 1 /\ <<x>>[1] = x
    OBVIOUS
  <1>2. DOMAIN <<x>> = 1..1
    BY <1>1
  <1>3. 1..1 = {1}
    OBVIOUS
  <1> QED BY <1>1, <1>2, <1>3 DEF IsSeq

\* The index that a constraint stands for.
IndexOf(n, c) ==
  [name |-> GeneratedConstraintName(n, c), columns |-> c.columns,
   unique |-> c.kind # "ForeignKey", automatic |-> TRUE]

\* Automatic indexes are those of the keys and of flagged columns, and every key
\* has one.
LEMMA AutoDefs ==
  ASSUME NEW n, NEW t, IsSeq(t.columns), IsSeq(t.constraints)
  PROVE  LET auto == AutomaticIndexes(n, t) IN
         /\ \A i \in DOMAIN auto :
              /\ DOMAIN auto[i] = IndexDefFields
              /\ \/ \E k \in DOMAIN t.constraints : auto[i].columns = t.constraints[k].columns
                 \/ \E j \in DOMAIN t.columns : auto[i].columns = <<t.columns[j].name>>
         /\ \A k \in DOMAIN t.constraints : t.constraints[k].kind # "Check" =>
              \E i \in DOMAIN auto : auto[i] = IndexOf(n, t.constraints[k])
  <1> DEFINE A == {i \in DOMAIN t.constraints : t.constraints[i].kind # "Check"}
             keys == At(t.constraints, A)
             c == [i \in DOMAIN keys |-> IndexOf(n, keys[i])]
             B == {j \in DOMAIN t.columns :
                     /\ t.columns[j].pk \/ t.columns[j].unique
                     /\ \A i \in DOMAIN c : c[i].columns # <<t.columns[j].name>>}
             bare == At(t.columns, B)
             d == [i \in DOMAIN bare |->
                     [name |-> <<n, bare[i].name, IF bare[i].pk THEN "pk" ELSE "uk">>,
                      columns |-> <<bare[i].name>>, unique |-> TRUE, automatic |-> TRUE]]
  <1>1. AutomaticIndexes(n, t) = c \o d
    BY DEF AutomaticIndexes, IndexOf
  <1>2. /\ IsSeq(keys) /\ \A i \in DOMAIN keys : \E k \in A : keys[i] = t.constraints[k]
        /\ IsSeq(bare) /\ \A i \in DOMAIN bare : \E j \in B : bare[i] = t.columns[j]
    <2>1. A \subseteq DOMAIN t.constraints /\ B \subseteq DOMAIN t.columns
      OBVIOUS
    <2> HIDE DEF A, B
    <2> QED BY <2>1, Positions
  <1>3. ASSUME NEW k \in A PROVE \E i \in DOMAIN keys : keys[i] = t.constraints[k]
    <2>1. A \subseteq DOMAIN t.constraints
      OBVIOUS
    <2> HIDE DEF A
    <2> QED BY <2>1, AtOnto
  <1> HIDE DEF keys, bare
  <1>4. ASSUME NEW i \in DOMAIN c
        PROVE  /\ DOMAIN c[i] = IndexDefFields
               /\ \E k \in DOMAIN t.constraints : c[i].columns = t.constraints[k].columns
    <2>1. PICK k \in A : keys[i] = t.constraints[k]
      BY <1>2
    <2>2. c[i] = IndexOf(n, t.constraints[k]) /\ k \in DOMAIN t.constraints
      BY <2>1
    <2> QED BY <2>2 DEF IndexOf, IndexDefFields
  <1>5. ASSUME NEW i \in DOMAIN d
        PROVE  /\ DOMAIN d[i] = IndexDefFields
               /\ \E j \in DOMAIN t.columns : d[i].columns = <<t.columns[j].name>>
    <2>1. PICK j \in B : bare[i] = t.columns[j]
      BY <1>2
    <2>2. j \in DOMAIN t.columns /\ d[i].columns = <<t.columns[j].name>>
      BY <2>1
    <2>3. DOMAIN d[i] = IndexDefFields
      BY DEF IndexDefFields
    <2> QED BY <2>2, <2>3
  <1>6. c = [i \in DOMAIN keys |-> c[i]] /\ d = [i \in DOMAIN bare |-> d[i]] /\ DOMAIN c = DOMAIN keys
    OBVIOUS
  <1>7. ASSUME NEW k \in A PROVE \E i \in DOMAIN c : c[i] = IndexOf(n, t.constraints[k])
    BY <1>3
  <1>8. \A k \in DOMAIN t.constraints : t.constraints[k].kind # "Check" => k \in A
    OBVIOUS
  <1> HIDE DEF c, d, A, B
  <1>9. /\ Len(c) \in Nat /\ Len(d) \in Nat /\ DOMAIN c = 1..Len(c) /\ DOMAIN d = 1..Len(d)
        /\ DOMAIN (c \o d) = 1..(Len(c) + Len(d))
        /\ \A i \in 1..Len(c) : (c \o d)[i] = c[i]
        /\ \A i \in 1..Len(d) : (c \o d)[Len(c) + i] = d[i]
    <2>1. IsSeq(c) /\ IsSeq(d)
      BY <1>2, <1>6, MappedIsSeq
    <2> QED BY <2>1, ConcatFacts, SeqIsFunction
  <1>10. ASSUME NEW i \in DOMAIN (c \o d)
         PROVE  (\E j \in DOMAIN c : (c \o d)[i] = c[j]) \/ (\E j \in DOMAIN d : (c \o d)[i] = d[j])
    <2>1. CASE i \in 1..Len(c)
      BY <1>9, <2>1
    <2>2. CASE i \notin 1..Len(c)
      <3>1. i - Len(c) \in 1..Len(d) /\ Len(c) + (i - Len(c)) = i
        BY <1>9, <2>2
      <3> QED BY <1>9, <3>1
    <2> QED BY <2>1, <2>2
  <1>11. ASSUME NEW k \in DOMAIN t.constraints, t.constraints[k].kind # "Check"
         PROVE  \E i \in DOMAIN (c \o d) : (c \o d)[i] = IndexOf(n, t.constraints[k])
    <2>1. PICK i \in DOMAIN c : c[i] = IndexOf(n, t.constraints[k])
      BY <1>7, <1>8, <1>11
    <2>2. i \in DOMAIN (c \o d) /\ (c \o d)[i] = c[i]
      BY <1>9
    <2> QED BY <2>1, <2>2
  <1>12. ASSUME NEW i \in DOMAIN (c \o d)
         PROVE  /\ DOMAIN (c \o d)[i] = IndexDefFields
                /\ \/ \E k \in DOMAIN t.constraints : (c \o d)[i].columns = t.constraints[k].columns
                   \/ \E j \in DOMAIN t.columns : (c \o d)[i].columns = <<t.columns[j].name>>
    BY <1>4, <1>5, <1>10
  <1> QED BY <1>1, <1>11, <1>12

\* The columns of automatic indexes exist.
LEMMA AutoExist ==
  ASSUME NEW n, NEW t, IsSeq(t.columns), IsSeq(t.constraints), ConstraintsInv(t.columns, t.constraints)
  PROVE  \A i \in DOMAIN AutomaticIndexes(n, t) :
           /\ IndexDefInv(t.columns, AutomaticIndexes(n, t)[i])
           /\ Exist(t.columns, AutomaticIndexes(n, t)[i].columns)
  <1> DEFINE auto == AutomaticIndexes(n, t)
  <1>1. SUFFICES ASSUME NEW i \in DOMAIN auto
                 PROVE  IndexDefInv(t.columns, auto[i]) /\ Exist(t.columns, auto[i].columns)
    OBVIOUS
  <1>2. /\ DOMAIN auto[i] = IndexDefFields
        /\ \/ \E k \in DOMAIN t.constraints : auto[i].columns = t.constraints[k].columns
           \/ \E j \in DOMAIN t.columns : auto[i].columns = <<t.columns[j].name>>
    BY AutoDefs
  <1> HIDE DEF auto
  <1>3. IsSeq(auto[i].columns) /\ Exist(t.columns, auto[i].columns)
    <2>1. CASE \E k \in DOMAIN t.constraints : auto[i].columns = t.constraints[k].columns
      BY <2>1 DEF ConstraintsInv, ConstraintInv
    <2>2. CASE \E j \in DOMAIN t.columns : auto[i].columns = <<t.columns[j].name>>
      <3>1. PICK j \in DOMAIN t.columns : auto[i].columns = <<t.columns[j].name>>
        BY <2>2
      <3>2. t.columns[j].name \in Names(t.columns)
        BY DEF Names
      <3>3. IsSeq(<<t.columns[j].name>>) /\ DOMAIN <<t.columns[j].name>> = {1}
        BY Singleton
      <3>4. Exist(t.columns, <<t.columns[j].name>>)
        BY <3>2, Singleton DEF Exist
      <3> QED BY <3>1, <3>3, <3>4
    <2> QED BY <1>2, <2>1, <2>2
  <1> QED BY <1>2, <1>3 DEF IndexDefInv

\* refresh_constraint_metadata completes the invariant.
LEMMA RefreshData ==
  ASSUME NEW n, NEW t, RawInv(t), Data(t)
  PROVE  DataInv(RefreshConstraintMetadata(n, t))
  <1> DEFINE r == RefreshConstraintMetadata(n, t)
             auto == AutomaticIndexes(n, r)
             K == {i \in DOMAIN t.indexes : ~t.indexes[i].automatic}
             own == At(t.indexes, K)
  <1>1. /\ r.rows = t.rows /\ r.constraints = t.constraints
        /\ r.columns = Marked(Reset(t.columns), t.constraints)
        /\ r.indexes = auto \o own
        /\ IsColumns(r.columns)
    <2>1. /\ TableInv(n, r) /\ r.rows = t.rows /\ r.constraints = t.constraints
          /\ r.columns = Marked(Reset(t.columns), t.constraints)
          /\ r.indexes = auto \o Own(t.indexes)
      BY RefreshFacts
    <2> HIDE DEF r, auto
    <2>2. IsColumns(r.columns)
      BY <2>1 DEF TableInv, RawInv, Shape
    <2> QED BY <2>1, <2>2 DEF Own
  <1> HIDE DEF r
  <1>2. IsColumns(t.columns) /\ IsSeq(t.columns) /\ IsSeq(t.constraints) /\ IsSeq(t.indexes)
    BY DEF RawInv, Shape, IsColumns
  <1>3. IsColumns(Reset(t.columns)) /\ SameColumns(t.columns, Reset(t.columns))
    <2> DEFINE e == Reset(t.columns)
    <2>1. e = [i \in DOMAIN t.columns |-> [t.columns[i] EXCEPT !.pk = FALSE, !.unique = FALSE]]
      BY DEF Reset
    <2>2. e = [i \in DOMAIN t.columns |-> e[i]]
      BY <2>1
    <2>3. ASSUME NEW i \in DOMAIN t.columns
          PROVE  /\ DOMAIN e[i] = ColumnFields /\ e[i].name = t.columns[i].name
                 /\ e[i].type = t.columns[i].type /\ e[i].default = t.columns[i].default
      <3>1. DOMAIN t.columns[i] = ColumnFields /\ e[i] = [t.columns[i] EXCEPT !.pk = FALSE, !.unique = FALSE]
        BY <1>2, <2>1 DEF IsColumns
      <3> HIDE DEF e
      <3> QED BY <3>1 DEF ColumnFields
    <2> HIDE DEF e
    <2>4. IsColumns(e) /\ Len(e) = Len(t.columns) /\ DOMAIN e = DOMAIN t.columns
      BY <1>2, <2>2, <2>3, ColumnsEdited, MappedIsSeq
    <2>5. SameColumns(t.columns, e)
      BY <2>3, <2>4 DEF SameColumns
    <2> QED BY <2>4, <2>5 DEF e
  <1>4. /\ SameColumns(Reset(t.columns), r.columns)
        /\ \A k \in DOMAIN t.constraints : NotNull(r.columns, t.constraints[k])
    BY <1>1, <1>2, <1>3, MarkedColumns
  <1>5. SameColumns(t.columns, r.columns)
    BY <1>3, <1>4 DEF SameColumns
  <1>6. /\ ColumnsInv(r.columns) /\ RowsInv(r.columns, r.rows)
        /\ ConstraintsInv(r.columns, r.constraints) /\ IndexesInv(r.columns, t.indexes)
    BY <1>1, <1>5, SameColumnsKeep DEF Data
  <1>7. \A i \in DOMAIN auto : IndexDefInv(r.columns, auto[i]) /\ Exist(r.columns, auto[i].columns)
    BY <1>1, <1>2, <1>6, AutoExist DEF IsColumns
  <1>8. IsSeq(own) /\ \A i \in DOMAIN own : IndexDefInv(r.columns, own[i]) /\ Exist(r.columns, own[i].columns)
    <2>1. K \subseteq DOMAIN t.indexes /\ \A p \in K : ~t.indexes[p].automatic
      OBVIOUS
    <2> HIDE DEF K
    <2>2. IsSeq(own) /\ \A i \in DOMAIN own : \E p \in K : own[i] = t.indexes[p]
      BY <1>2, <2>1, Positions
    <2> QED BY <2>1, <2>2, <1>6 DEF IndexesInv, IndexDefInv
  <1>9. IsSeq(auto)
    BY <1>1, <1>2, AutoFacts DEF IsColumns
  <1> HIDE DEF auto, own
  <1>10. ASSUME NEW i \in DOMAIN (auto \o own)
         PROVE  IndexDefInv(r.columns, (auto \o own)[i]) /\ Exist(r.columns, (auto \o own)[i].columns)
    <2>1. /\ Len(auto) \in Nat /\ Len(own) \in Nat /\ i \in 1..(Len(auto) + Len(own))
          /\ DOMAIN auto = 1..Len(auto) /\ DOMAIN own = 1..Len(own)
          /\ \A j \in 1..Len(auto) : (auto \o own)[j] = auto[j]
          /\ \A j \in 1..Len(own) : (auto \o own)[Len(auto) + j] = own[j]
      BY <1>8, <1>9, ConcatFacts, SeqIsFunction
    <2>2. CASE i \in 1..Len(auto)
      BY <1>7, <2>1, <2>2
    <2>3. CASE i \notin 1..Len(auto)
      <3>1. i - Len(auto) \in 1..Len(own) /\ Len(auto) + (i - Len(auto)) = i
        BY <2>1, <2>3
      <3> QED BY <1>8, <2>1, <3>1
    <2> QED BY <2>2, <2>3
  <1>11. IndexesInv(r.columns, r.indexes) /\ \A k \in DOMAIN r.indexes : Exist(r.columns, r.indexes[k].columns)
    BY <1>1, <1>10 DEF IndexesInv
  <1>12. Data(r)
    BY <1>6, <1>11 DEF Data
  <1>13. Refreshed(r)
    BY <1>1, <1>4, <1>11 DEF Refreshed
  <1> QED BY <1>12, <1>13 DEF DataInv, r

---------------------------------------------------------------------------
(* Columns, rows and references edited *)

\* The columns of the invariant are columns.
LEMMA AreColumns ==
  ASSUME NEW columns, ColumnsInv(columns)
  PROVE  IsColumns(columns)
  BY DEF ColumnsInv, IsColumns, IsColumnDef

\* A reference to columns depends on the names.
LEMMA ExistMore ==
  ASSUME NEW a, NEW b, Names(a) \subseteq Names(b)
  PROVE  /\ \A cons : ConstraintsInv(a, cons) => ConstraintsInv(b, cons)
         /\ \A xs : IndexesInv(a, xs) => IndexesInv(b, xs)
  <1>1. \A cols : Exist(a, cols) => Exist(b, cols)
    BY DEF Exist
  <1> QED BY <1>1 DEF ConstraintsInv, ConstraintInv, IndexesInv, IndexDefInv

\* One more column.
LEMMA ColumnAppended ==
  ASSUME NEW cs, ColumnsInv(cs), NEW c, IsColumnDef(c), c.name \notin Names(cs)
  PROVE  /\ ColumnsInv(Append(cs, c)) /\ Names(cs) \subseteq Names(Append(cs, c))
         /\ c.name \in Names(Append(cs, c))
  <1> DEFINE d == Append(cs, c)
             N == Len(cs)
  <1>1. /\ IsSeq(d) /\ N \in Nat /\ DOMAIN cs = 1..N /\ DOMAIN d = 1..(N + 1)
        /\ \A i \in 1..N : d[i] = cs[i]
        /\ d[N + 1] = c
    BY AppendFacts DEF ColumnsInv
  <1> HIDE DEF d
  <1>2. \A i \in DOMAIN d : i \in 1..N \/ i = N + 1
    BY <1>1
  <1>3. \A i \in DOMAIN d : IsColumnDef(d[i])
    BY <1>1, <1>2 DEF ColumnsInv
  <1>4. \A i \in 1..N : d[i].name # c.name
    BY <1>1 DEF Names
  <1>5. ASSUME NEW i \in DOMAIN d, NEW j \in DOMAIN d, d[i].name = d[j].name PROVE i = j
    <2>1. CASE i \in 1..N /\ j \in 1..N
      BY <1>1, <1>5, <2>1 DEF ColumnsInv
    <2>2. CASE i = N + 1 \/ j = N + 1
      BY <1>1, <1>2, <1>4, <1>5, <2>2
    <2> QED BY <1>2, <2>1, <2>2
  <1>6. N + 1 \in DOMAIN d /\ \A i \in 1..N : i \in DOMAIN d
    BY <1>1
  <1>7. Names(cs) \subseteq Names(d) /\ c.name \in Names(d)
    BY <1>1, <1>6 DEF Names
  <1> QED BY <1>1, <1>3, <1>5, <1>7 DEF ColumnsInv, d

\* One more value at the end of a row.
LEMMA RowAppended ==
  ASSUME NEW cs, ColumnsInv(cs), NEW c, NEW row, RowInv(cs, row), NEW v, Typed(c, v)
  PROVE  RowInv(Append(cs, c), Append(row, v))
  <1> DEFINE d == Append(cs, c)
             e == Append(row, v)
             N == Len(cs)
  <1>1. /\ N \in Nat /\ Len(d) = N + 1 /\ DOMAIN cs = 1..N /\ DOMAIN d = 1..(N + 1)
        /\ \A i \in 1..N : d[i] = cs[i]
        /\ d[N + 1] = c
    BY AppendFacts DEF ColumnsInv
  <1>2. IsSeq(row) /\ Len(row) = N /\ \A i \in 1..N : Typed(cs[i], row[i])
    BY <1>1 DEF RowInv
  <1>3. IsSeq(e) /\ Len(e) = N + 1 /\ (\A i \in 1..N : e[i] = row[i]) /\ e[N + 1] = v
    BY <1>2, AppendFacts
  <1> HIDE DEF d, e
  <1>4. \A i \in DOMAIN d : i \in 1..N \/ i = N + 1
    BY <1>1
  <1>5. \A i \in DOMAIN d : Typed(d[i], e[i])
    BY <1>1, <1>2, <1>3, <1>4
  <1> QED BY <1>1, <1>3, <1>5 DEF RowInv, d, e

\* One column less.
LEMMA ColumnRemoved ==
  ASSUME NEW cs, ColumnsInv(cs), NEW pos \in DOMAIN cs
  PROVE  /\ ColumnsInv(RemoveAt(cs, pos))
         /\ \A x \in Names(cs) : x # cs[pos].name => x \in Names(RemoveAt(cs, pos))
  <1> DEFINE d == RemoveAt(cs, pos)
             N == Len(cs)
             at(i) == IF i < pos THEN i ELSE i + 1
  <1>1. N \in Nat /\ DOMAIN cs = 1..N
    BY SeqIsFunction DEF ColumnsInv
  <1>2. IsSeq(d) /\ DOMAIN d = 1..(N - 1) /\ \A i \in 1..(N - 1) : d[i] = cs[at(i)]
    BY RemoveAtFacts DEF ColumnsInv
  <1> HIDE DEF d
  <1>3. \A i \in 1..(N - 1) : at(i) \in 1..N
    BY <1>1
  <1>4. \A i, j \in 1..(N - 1) : at(i) = at(j) => i = j
    BY <1>1
  <1>5. ASSUME NEW j \in 1..N, j # pos PROVE \E i \in 1..(N - 1) : at(i) = j
    <2>1. CASE j < pos
      <3>1. j \in 1..(N - 1) /\ at(j) = j
        BY <1>1, <2>1
      <3> QED BY <3>1
    <2>2. CASE ~(j < pos)
      <3>1. j - 1 \in 1..(N - 1) /\ at(j - 1) = j
        BY <1>1, <1>5, <2>2
      <3> QED BY <3>1
    <2> QED BY <2>1, <2>2
  <1> HIDE DEF at
  <1>6. \A i \in DOMAIN d : IsColumnDef(d[i])
    BY <1>1, <1>2, <1>3 DEF ColumnsInv
  <1>7. \A i, j \in DOMAIN d : d[i].name = d[j].name => i = j
    BY <1>1, <1>2, <1>3, <1>4 DEF ColumnsInv
  <1>8. ASSUME NEW x \in Names(cs), x # cs[pos].name PROVE x \in Names(d)
    <2>1. PICK j \in DOMAIN cs : cs[j].name = x
      BY DEF Names
    <2>2. PICK i \in 1..(N - 1) : at(i) = j
      BY <1>1, <1>5, <1>8, <2>1
    <2> QED BY <1>2, <2>1, <2>2 DEF Names
  <1> QED BY <1>2, <1>6, <1>7, <1>8 DEF ColumnsInv, d

\* One value less.
LEMMA RowRemoved ==
  ASSUME NEW cs, ColumnsInv(cs), NEW pos \in DOMAIN cs, NEW row, RowInv(cs, row)
  PROVE  RowInv(RemoveAt(cs, pos), RemoveAt(row, pos))
  <1> DEFINE d == RemoveAt(cs, pos)
             e == RemoveAt(row, pos)
             N == Len(cs)
             at(i) == IF i < pos THEN i ELSE i + 1
  <1>1. N \in Nat /\ DOMAIN cs = 1..N /\ IsSeq(cs)
    BY SeqIsFunction DEF ColumnsInv
  <1>2. IsSeq(row) /\ Len(row) = N /\ DOMAIN row = 1..N /\ \A i \in 1..N : Typed(cs[i], row[i])
    BY <1>1, SeqIsFunction DEF RowInv
  <1>3. Len(d) = N - 1 /\ DOMAIN d = 1..(N - 1) /\ \A i \in 1..(N - 1) : d[i] = cs[at(i)]
    BY <1>1, RemoveAtFacts
  <1>4. IsSeq(e) /\ Len(e) = N - 1 /\ \A i \in 1..(N - 1) : e[i] = row[at(i)]
    BY <1>1, <1>2, RemoveAtFacts
  <1>5. \A i \in 1..(N - 1) : at(i) \in 1..N
    BY <1>1
  <1> HIDE DEF d, e, at
  <1>6. \A i \in DOMAIN d : Typed(d[i], e[i])
    BY <1>2, <1>3, <1>4, <1>5
  <1> QED BY <1>3, <1>4, <1>6 DEF RowInv, d, e

\* A column replaced, under its own name or a new one.
LEMMA ColumnReplaced ==
  ASSUME NEW cs, ColumnsInv(cs), NEW pos \in DOMAIN cs, NEW c, IsColumnDef(c),
         c.name = cs[pos].name \/ c.name \notin Names(cs)
  PROVE  LET d == [cs EXCEPT ![pos] = c] IN
         /\ ColumnsInv(d) /\ DOMAIN d = DOMAIN cs /\ Len(d) = Len(cs)
         /\ c.name \in Names(d)
         /\ \A x \in Names(cs) : x # cs[pos].name => x \in Names(d)
  <1> DEFINE d == [cs EXCEPT ![pos] = c]
  <1>1. /\ d = [i \in DOMAIN cs |-> d[i]] /\ DOMAIN d = DOMAIN cs /\ d[pos] = c
        /\ \A i \in DOMAIN cs : i # pos => d[i] = cs[i]
    OBVIOUS
  <1> HIDE DEF d
  <1>2. IsSeq(d) /\ Len(d) = Len(cs)
    BY <1>1, MappedIsSeq DEF ColumnsInv
  <1>3. \A i \in DOMAIN d : IsColumnDef(d[i])
    BY <1>1 DEF ColumnsInv
  <1>4. \A i \in DOMAIN cs : i # pos => cs[i].name # c.name
    BY DEF ColumnsInv, Names
  <1>5. \A i, j \in DOMAIN d : d[i].name = d[j].name => i = j
    BY <1>1, <1>4 DEF ColumnsInv
  <1>6. c.name \in Names(d)
    BY <1>1 DEF Names
  <1>7. \A x \in Names(cs) : x # cs[pos].name => x \in Names(d)
    BY <1>1 DEF Names
  <1> QED BY <1>1, <1>2, <1>3, <1>5, <1>6, <1>7 DEF ColumnsInv, d

\* With the type of the column the rows stay as they are.
LEMMA RowsStay ==
  ASSUME NEW cs, NEW pos \in DOMAIN cs, NEW c, c.type = cs[pos].type, NEW rows, RowsInv(cs, rows),
         NEW d, DOMAIN d = DOMAIN cs, Len(d) = Len(cs), d[pos] = c,
         \A i \in DOMAIN cs : i # pos => d[i] = cs[i]
  PROVE  RowsInv(d, rows)
  <1>1. \A i \in DOMAIN cs : d[i].type = cs[i].type
    OBVIOUS
  <1> QED BY <1>1 DEF RowsInv, RowInv, Typed

\* Otherwise the values of the column are converted.
LEMMA RowsConverted ==
  ASSUME NEW cs, ColumnsInv(cs), NEW pos \in DOMAIN cs, NEW c, c.type \in DataType,
         NEW rows, RowsInv(cs, rows),
         NEW d, DOMAIN d = DOMAIN cs, Len(d) = Len(cs), d[pos] = c,
         \A i \in DOMAIN cs : i # pos => d[i] = cs[i]
  PROVE  RowsInv(d, ConvertColumn(rows, pos, c.type))
  <1>1. SUFFICES ASSUME NEW p \in DOMAIN rows
                 PROVE  RowInv(d, [rows[p] EXCEPT ![pos] = CoerceTo(@, c.type)])
    BY DEF RowsInv, ConvertColumn
  <1> DEFINE row == rows[p]
             e == [row EXCEPT ![pos] = CoerceTo(@, c.type)]
  <1>2. IsSeq(row) /\ Len(row) = Len(cs) /\ \A i \in DOMAIN cs : Typed(cs[i], row[i])
    BY DEF RowsInv, RowInv
  <1>3. DOMAIN row = DOMAIN cs
    BY <1>2, SeqIsFunction DEF ColumnsInv
  <1> HIDE DEF row
  <1>4. /\ e = [i \in DOMAIN row |-> e[i]] /\ e[pos] = CoerceTo(row[pos], c.type)
        /\ \A i \in DOMAIN cs : i # pos => e[i] = row[i]
    BY <1>3
  <1> HIDE DEF e
  <1>5. IsSeq(e) /\ Len(e) = Len(d)
    BY <1>2, <1>4, MappedIsSeq
  <1>6. Typed(c, e[pos])
    BY <1>2, <1>4, CoerceFacts DEF Typed
  <1>7. \A i \in DOMAIN d : Typed(d[i], e[i])
    BY <1>2, <1>4, <1>6
  <1> QED BY <1>5, <1>7 DEF RowInv, e, row

\* Constraints run together.
LEMMA ConstraintsJoined ==
  ASSUME NEW cs, NEW a, NEW b, IsSeq(a), IsSeq(b), ConstraintsInv(cs, a), ConstraintsInv(cs, b)
  PROVE  ConstraintsInv(cs, a \o b)
  <1>1. /\ Len(a) \in Nat /\ Len(b) \in Nat /\ DOMAIN (a \o b) = 1..(Len(a) + Len(b))
        /\ DOMAIN a = 1..Len(a) /\ DOMAIN b = 1..Len(b)
        /\ \A i \in 1..Len(a) : (a \o b)[i] = a[i]
        /\ \A i \in 1..Len(b) : (a \o b)[Len(a) + i] = b[i]
    BY ConcatFacts, SeqIsFunction
  <1>2. SUFFICES ASSUME NEW i \in DOMAIN (a \o b) PROVE ConstraintInv(cs, (a \o b)[i])
    BY DEF ConstraintsInv
  <1>3. CASE i \in 1..Len(a)
    BY <1>1, <1>3 DEF ConstraintsInv
  <1>4. CASE i \notin 1..Len(a)
    <2>1. i - Len(a) \in 1..Len(b) /\ Len(a) + (i - Len(a)) = i
      BY <1>1, <1>4
    <2> QED BY <1>1, <2>1 DEF ConstraintsInv
  <1> QED BY <1>3, <1>4

\* A name that is renamed exists where the new name does.
LEMMA RenamedExist ==
  ASSUME NEW a, NEW b, NEW old, NEW new, \A x \in Names(a) : x # old => x \in Names(b),
         new \in Names(b), NEW cols, IsSeq(cols)
  PROVE  /\ IsSeq(Rename(cols, old, new))
         /\ Exist(a, cols) => Exist(b, Rename(cols, old, new))
  <1> DEFINE r == Rename(cols, old, new)
  <1>1. r = [i \in DOMAIN cols |-> r[i]]
    BY DEF Rename
  <1>2. \A i \in DOMAIN cols : r[i] = IF cols[i] = old THEN new ELSE cols[i]
    BY DEF Rename
  <1> HIDE DEF r
  <1>3. IsSeq(r)
    BY <1>1, MappedIsSeq
  <1>4. Exist(a, cols) => Exist(b, r)
    BY <1>1, <1>2 DEF Exist
  <1> QED BY <1>3, <1>4 DEF r

---------------------------------------------------------------------------
(* ALTER TABLE *)

\* A state between two operations.
AlterData(n, s) ==
  /\ Data(s.table)
  /\ \A m \in DOMAIN s.tables : m \in TableNames /\ (m # n => DataInv(s.tables[m]))

\* An operation that touches no other table.
LEMMA TableEdited ==
  ASSUME NEW n, NEW s, AlterData(n, s), NEW r, r.tables = s.tables, Data(r.table)
  PROVE  AlterData(n, r)
  BY DEF AlterData

\* A refused operation leaves the working copy.
LEMMA RefuseData ==
  ASSUME NEW n, NEW s, AlterInv(n, s), AlterData(n, s)
  PROVE  AlterData(n, Refuse(s))
  BY DEF AlterInv, AlterData, Refuse, StateFields

\* ADD COLUMN: the new value has the type, the column's constraints name it.
LEMMA AddColumnData ==
  ASSUME NEW n, NEW s, AlterInv(n, s), AlterData(n, s), NEW op, IsColumnWithConstraints(op.def)
  PROVE  AlterData(n, AddColumn(s, op))
  <1> DEFINE t == s.table
             c == op.def.column
             v == CoerceTo(c.default, c.type)
             rows == [p \in DOMAIN t.rows |-> Append(t.rows[p], v)]
             r == [s EXCEPT !.table.rows = [p \in DOMAIN @ |-> Append(@[p], v)],
                            !.table.columns = Append(@, c),
                            !.table.constraints = @ \o op.def.constraints]
  <1>1. AddColumn(s, op) \in {s, Refuse(s)} \/ (AddColumn(s, op) = r /\ ~HasColumn(t, c.name))
    BY DEF AddColumn
  <1>2. DOMAIN s = StateFields /\ DOMAIN s.table = Fields /\ IsSeq(t.constraints)
    BY AlterParts
  <1>3. Typed(c, v) /\ IsColumnDef(c)
    BY CoerceFacts DEF IsColumnWithConstraints, IsColumnDef, Typed
  <1> HIDE DEF v
  <1>4. /\ r.tables = s.tables /\ r.table.columns = Append(t.columns, c)
        /\ r.table.constraints = t.constraints \o op.def.constraints
        /\ r.table.rows = rows /\ r.table.indexes = t.indexes
    BY <1>2 DEF StateFields, Fields
  <1> HIDE DEF r
  <1>5. Data(t)
    BY DEF AlterData
  <1>6. ASSUME ~HasColumn(t, c.name) PROVE AlterData(n, r)
    <2> DEFINE d == Append(t.columns, c)
    <2>1. ColumnsInv(d) /\ Names(t.columns) \subseteq Names(d) /\ c.name \in Names(d)
      BY <1>3, <1>5, <1>6, ColumnAppended DEF Data, HasColumn
    <2>2. RowsInv(d, rows)
      <3>1. ASSUME NEW p \in DOMAIN t.rows PROVE RowInv(d, Append(t.rows[p], v))
        <4>1. RowInv(t.columns, t.rows[p]) /\ ColumnsInv(t.columns)
          BY <1>5 DEF Data, RowsInv
        <4> QED BY <1>3, <4>1, RowAppended
      <3> HIDE DEF d
      <3> QED BY <3>1 DEF RowsInv
    <2> HIDE DEF d
    <2>3. ConstraintsInv(d, t.constraints) /\ IndexesInv(d, t.indexes)
      BY <1>5, <2>1, ExistMore DEF Data
    <2>4. IsSeq(op.def.constraints)
      BY DEF IsColumnWithConstraints, IsSeq
    <2>5. ConstraintsInv(d, op.def.constraints)
      <3>1. SUFFICES ASSUME NEW k \in DOMAIN op.def.constraints
                     PROVE  ConstraintInv(d, op.def.constraints[k])
        BY DEF ConstraintsInv
      <3> DEFINE e == op.def.constraints[k]
      <3>2. IsConstraintDef(e) /\ Range(e.columns) \subseteq {c.name}
        BY DEF IsColumnWithConstraints
      <3> HIDE DEF e
      <3>3. \A i \in DOMAIN e.columns : e.columns[i] \in Names(d)
        BY <2>1, <3>2 DEF Range
      <3> QED BY <3>2, <3>3 DEF ConstraintInv, IsConstraintDef, IsSeq, Exist, e
    <2>6. ConstraintsInv(d, t.constraints \o op.def.constraints)
      BY <1>2, <2>3, <2>4, <2>5, ConstraintsJoined
    <2>7. Data(r.table)
      BY <1>4, <2>1, <2>2, <2>3, <2>6 DEF Data, d
    <2> QED BY <1>4, <2>7, TableEdited
  <1> QED BY <1>1, <1>6, RefuseData

\* DROP COLUMN: no constraint and no index names the column.
LEMMA DropColumnData ==
  ASSUME NEW n, NEW s, AlterInv(n, s), AlterData(n, s), NEW op
  PROVE  AlterData(n, DropColumn(s, n, op))
  <1> DEFINE t == s.table
             pos == ColumnIndex(t, op.col)
             rows == [p \in DOMAIN t.rows |-> RemoveAt(t.rows[p], pos)]
             r == [s EXCEPT !.table.columns = RemoveAt(@, pos),
                            !.table.rows = [p \in DOMAIN @ |-> RemoveAt(@[p], pos)]]
             local == \/ \E c \in Range(t.constraints) : op.col \in Range(c.columns)
                      \/ \E x \in Range(t.indexes) : op.col \in Range(x.columns)
  <1>1. \/ DropColumn(s, n, op) \in {s, Refuse(s)}
        \/ DropColumn(s, n, op) = r /\ HasColumn(t, op.col) /\ ~local
    BY DEF DropColumn
  <1>2. DOMAIN s = StateFields /\ DOMAIN s.table = Fields
    BY AlterParts
  <1> HIDE DEF pos
  <1>4. /\ r.tables = s.tables /\ r.table.columns = RemoveAt(t.columns, pos)
        /\ r.table.constraints = t.constraints
        /\ r.table.rows = rows /\ r.table.indexes = t.indexes
    BY <1>2 DEF StateFields, Fields
  <1> HIDE DEF r
  <1>5. Data(t)
    BY DEF AlterData
  <1>6. ASSUME HasColumn(t, op.col), ~local PROVE AlterData(n, r)
    <2> DEFINE d == RemoveAt(t.columns, pos)
    <2>0. pos \in DOMAIN t.columns /\ t.columns[pos].name = op.col
      BY <1>6, ColumnFacts DEF pos
    <2>1. ColumnsInv(d) /\ \A x \in Names(t.columns) : x # op.col => x \in Names(d)
      BY <1>5, <2>0, ColumnRemoved DEF Data
    <2>2. RowsInv(d, rows)
      <3>1. ASSUME NEW p \in DOMAIN t.rows PROVE RowInv(d, RemoveAt(t.rows[p], pos))
        <4>1. RowInv(t.columns, t.rows[p]) /\ ColumnsInv(t.columns)
          BY <1>5 DEF Data, RowsInv
        <4> QED BY <2>0, <4>1, RowRemoved
      <3> HIDE DEF d
      <3> QED BY <3>1 DEF RowsInv
    <2> HIDE DEF d
    <2>3. \A cols : Exist(t.columns, cols) /\ op.col \notin Range(cols) => Exist(d, cols)
      BY <2>1 DEF Exist, Range
    <2>4. ConstraintsInv(d, t.constraints)
      <3>1. \A k \in DOMAIN t.constraints : op.col \notin Range(t.constraints[k].columns)
        BY <1>6 DEF Range
      <3> QED BY <1>5, <2>3, <3>1 DEF Data, ConstraintsInv, ConstraintInv
    <2>5. IndexesInv(d, t.indexes)
      <3>1. \A k \in DOMAIN t.indexes : op.col \notin Range(t.indexes[k].columns)
        BY <1>6 DEF Range
      <3> QED BY <1>5, <2>3, <3>1 DEF Data, IndexesInv, IndexDefInv
    <2>6. Data(r.table)
      BY <1>4, <2>1, <2>2, <2>4, <2>5 DEF Data, d
    <2> QED BY <1>4, <2>6, TableEdited
  <1> QED BY <1>1, <1>6, RefuseData

\* References renamed with their column.
LEMMA RenameReferencesData ==
  ASSUME NEW n, NEW t, DOMAIN t = Fields, NEW old, NEW new, NEW a, NEW b,
         ConstraintsInv(a, t.constraints), IndexesInv(a, t.indexes),
         \A x \in Names(a) : x # old => x \in Names(b), new \in Names(b)
  PROVE  LET u == RenameSchemaReferences(n, t, old, new) IN
         ConstraintsInv(b, u.constraints) /\ IndexesInv(b, u.indexes)
  <1> DEFINE u == RenameSchemaReferences(n, t, old, new)
             atom(e) == [e EXCEPT !.col = IF @ = old THEN new ELSE @]
             constraint(c) ==
               [c EXCEPT !.columns = Rename(@, old, new),
                         !.referred = IF c.table = n THEN Rename(@, old, new) ELSE @,
                         !.expr = [i \in DOMAIN @ |-> atom(@[i])]]
             index(x) == [x EXCEPT !.columns = Rename(@, old, new)]
             cons == [i \in DOMAIN t.constraints |-> constraint(t.constraints[i])]
             xs == [i \in DOMAIN t.indexes |-> index(t.indexes[i])]
  <1>1. u.constraints = cons /\ u.indexes = xs
    <2> DEFINE v == [t EXCEPT !.constraints = cons]
    <2>1. u = [v EXCEPT !.indexes = [i \in DOMAIN @ |-> index(@[i])]]
      BY DEF RenameSchemaReferences
    <2>2. DOMAIN v = Fields /\ v.indexes = t.indexes /\ v.constraints = cons
      <3> HIDE DEF cons
      <3> QED BY DEF Fields
    <2> HIDE DEF v
    <2>3. u = [v EXCEPT !.indexes = xs]
      BY <2>1, <2>2
    <2> HIDE DEF u, cons, xs
    <2> QED BY <2>2, <2>3 DEF Fields
  <1> HIDE DEF u
  <1>2. ASSUME NEW k \in DOMAIN t.constraints PROVE ConstraintInv(b, constraint(t.constraints[k]))
    <2> DEFINE c == t.constraints[k]
    <2>1. DOMAIN c = ConstraintFields /\ IsSeq(c.columns) /\ Exist(a, c.columns)
      BY DEF ConstraintsInv, ConstraintInv
    <2> HIDE DEF c
    <2>2. DOMAIN constraint(c) = ConstraintFields /\ constraint(c).columns = Rename(c.columns, old, new)
      BY <2>1 DEF ConstraintFields
    <2> HIDE DEF constraint
    <2> QED BY <2>1, <2>2, RenamedExist DEF ConstraintInv, c
  <1>3. ASSUME NEW k \in DOMAIN t.indexes PROVE IndexDefInv(b, index(t.indexes[k]))
    <2> DEFINE x == t.indexes[k]
    <2>1. DOMAIN x = IndexDefFields /\ IsSeq(x.columns) /\ (~x.automatic => Exist(a, x.columns))
      BY DEF IndexesInv, IndexDefInv
    <2> HIDE DEF x
    <2>2. /\ DOMAIN index(x) = IndexDefFields /\ index(x).columns = Rename(x.columns, old, new)
          /\ index(x).automatic = x.automatic
      BY <2>1 DEF IndexDefFields
    <2> HIDE DEF index
    <2> QED BY <2>1, <2>2, RenamedExist DEF IndexDefInv, x
  <1> HIDE DEF constraint, index
  <1> QED BY <1>1, <1>2, <1>3 DEF ConstraintsInv, IndexesInv, u

\* Other tables, refreshed when a foreign key of theirs follows the column: what
\* they say of their own columns stays.
LEMMA RenameInboundData ==
  ASSUME NEW n, NEW cat, NEW old, NEW new,
         \A m \in DOMAIN cat : m # n => TableInv(m, cat[m]) /\ DataInv(cat[m])
  PROVE  LET c == RenameInboundReferences(cat, n, old, new) IN
         DOMAIN c = DOMAIN cat /\ \A m \in DOMAIN c : m # n => DataInv(c[m])
  <1> DEFINE c == RenameInboundReferences(cat, n, old, new)
             follow(d) == IF d.kind = "ForeignKey" /\ d.table = n
                          THEN [d EXCEPT !.referred = Rename(@, old, new)] ELSE d
             edited(m) == [cat[m] EXCEPT !.constraints = [i \in DOMAIN @ |-> follow(@[i])]]
  <1>1. DOMAIN c = DOMAIN cat
    BY DEF RenameInboundReferences
  <1>2. SUFFICES ASSUME NEW m \in DOMAIN cat, m # n PROVE DataInv(c[m])
    BY <1>1
  <1>3. c[m] = cat[m] \/ c[m] = RefreshConstraintMetadata(m, edited(m))
    BY <1>2 DEF RenameInboundReferences
  <1> HIDE DEF c
  <1> DEFINE t == cat[m]
             u == edited(m)
             cons == [i \in DOMAIN t.constraints |-> follow(t.constraints[i])]
  <1>4. RawInv(t) /\ DOMAIN t = Fields /\ DataInv(t)
    BY <1>2 DEF TableInv, RawInv, Shape
  <1>5. /\ DOMAIN u = Fields /\ u.columns = t.columns /\ u.rows = t.rows /\ u.indexes = t.indexes
        /\ u.ids = t.ids /\ u.next = t.next /\ u.constraints = cons
    <2>1. u = [t EXCEPT !.constraints = cons]
      OBVIOUS
    <2> HIDE DEF u, t, cons
    <2> QED BY <1>4, <2>1 DEF Fields
  <1>6. \A d : DOMAIN d = ConstraintFields =>
               DOMAIN follow(d) = ConstraintFields /\ follow(d).columns = d.columns
    BY DEF ConstraintFields
  <1>7. IsSeq(cons) /\ DOMAIN cons = DOMAIN t.constraints
    <2>1. cons = [i \in DOMAIN t.constraints |-> cons[i]]
      OBVIOUS
    <2> HIDE DEF cons
    <2> QED BY <1>4, <2>1, MappedIsSeq DEF RawInv, Shape
  <1>8. ConstraintsInv(t.columns, cons)
    <2>1. ASSUME NEW k \in DOMAIN t.constraints PROVE ConstraintInv(t.columns, follow(t.constraints[k]))
      <3>1. ConstraintInv(t.columns, t.constraints[k])
        BY <1>4 DEF DataInv, Data, ConstraintsInv
      <3> HIDE DEF follow, t
      <3> QED BY <1>6, <3>1 DEF ConstraintInv
    <2> HIDE DEF follow, t
    <2> QED BY <2>1 DEF ConstraintsInv
  <1> HIDE DEF u, t, cons
  <1>9. RawInv(u)
    BY <1>4, <1>5, <1>7 DEF RawInv, Shape, IdsInv
  <1>10. Data(u)
    BY <1>4, <1>5, <1>8 DEF DataInv, Data
  <1>11. DataInv(RefreshConstraintMetadata(m, u))
    BY <1>9, <1>10, RefreshData
  <1> QED BY <1>3, <1>4, <1>11 DEF u, t

\* RENAME COLUMN: keys and indexes follow the name.
LEMMA RenameColumnData ==
  ASSUME NEW n, NEW s, AlterInv(n, s), AlterData(n, s), NEW op
  PROVE  AlterData(n, RenameColumn(s, n, op))
  <1> DEFINE t == s.table
             pos == ColumnIndex(t, op.col)
             c == [t.columns[pos] EXCEPT !.name = op.new]
             d == [t.columns EXCEPT ![pos] = c]
             a == [t EXCEPT !.columns[pos].name = op.new]
             u == RenameSchemaReferences(n, a, op.col, op.new)
             others == RenameInboundReferences(s.tables, n, op.col, op.new)
             r == [s EXCEPT !.table = u, !.tables = others]
  <1>1. \/ RenameColumn(s, n, op) = Refuse(s)
        \/ RenameColumn(s, n, op) = r /\ ~HasColumn(t, op.new) /\ HasColumn(t, op.col)
    BY DEF RenameColumn
  <1>2. DOMAIN s = StateFields /\ DOMAIN t = Fields /\ IsSeq(t.constraints) /\ IsSeq(t.indexes)
    BY AlterParts
  <1>3. Data(t)
    BY DEF AlterData
  <1>4. ASSUME ~HasColumn(t, op.new), HasColumn(t, op.col) PROVE AlterData(n, r)
    <2>1. pos \in DOMAIN t.columns /\ t.columns[pos].name = op.col
      BY <1>4, ColumnFacts
    <2> HIDE DEF pos
    <2>2. IsColumnDef(c) /\ c.name = op.new /\ c.type = t.columns[pos].type
      BY <1>3, <2>1 DEF Data, ColumnsInv, IsColumnDef, ColumnFields
    <2>3. /\ DOMAIN a = Fields /\ a.columns = d /\ a.rows = t.rows
          /\ a.constraints = t.constraints /\ a.indexes = t.indexes
      BY <1>2, <2>1 DEF Fields
    <2> HIDE DEF a
    <2>4. d[pos] = c /\ \A i \in DOMAIN t.columns : i # pos => d[i] = t.columns[i]
      BY <2>1
    <2> HIDE DEF c
    <2>5. /\ ColumnsInv(d) /\ DOMAIN d = DOMAIN t.columns /\ Len(d) = Len(t.columns)
          /\ op.new \in Names(d) /\ \A x \in Names(t.columns) : x # op.col => x \in Names(d)
      BY <1>3, <1>4, <2>1, <2>2, ColumnReplaced DEF Data, HasColumn
    <2> HIDE DEF d
    <2>6. RowsInv(d, t.rows)
      BY <1>3, <2>1, <2>2, <2>4, <2>5, RowsStay DEF Data
    <2>7. u.columns = a.columns /\ u.rows = a.rows
      BY <1>2, <2>3, RenameReferences
    <2>8. ConstraintsInv(d, u.constraints) /\ IndexesInv(d, u.indexes)
      BY <1>3, <2>3, <2>5, RenameReferencesData DEF Data
    <2> HIDE DEF u
    <2>9. Data(u)
      BY <2>3, <2>5, <2>6, <2>7, <2>8 DEF Data
    <2>10. /\ DOMAIN others = DOMAIN s.tables
           /\ \A m \in DOMAIN others : m # n => DataInv(others[m])
      BY RenameInboundData DEF AlterInv, AlterData
    <2> HIDE DEF others
    <2>11. r.table = u /\ r.tables = others
      BY <1>2 DEF StateFields
    <2> HIDE DEF r
    <2> QED BY <2>9, <2>10, <2>11 DEF AlterData
  <1> QED BY <1>1, <1>4, RefuseData

\* MODIFY and CHANGE COLUMN: values are converted, references follow, and the
\* constraints that come with the column name it.
LEMMA ModifyColumnData ==
  ASSUME NEW n, NEW s, AlterInv(n, s), AlterData(n, s), NEW op, IsColumnWithConstraints(op.def)
  PROVE  AlterData(n, ModifyColumn(s, n, op))
  <1> DEFINE c == op.def.column
             pos == ColumnIndex(s.table, op.col)
             t == IF op.col = c.name THEN s.table
                  ELSE RenameSchemaReferences(n, s.table, op.col, c.name)
             K == {i \in DOMAIN op.def.constraints :
                     ~\E e \in Range(t.constraints)
                                \union {op.def.constraints[j] : j \in 1..(i - 1)} :
                        /\ e.kind = op.def.constraints[i].kind
                        /\ e.columns = op.def.constraints[i].columns}
             fresh == At(op.def.constraints, K)
             u == [t EXCEPT !.rows = ConvertColumn(@, pos, c.type),
                            !.columns[pos] = c,
                            !.constraints = @ \o fresh]
             r == [s EXCEPT !.table = u]
             d == [s.table.columns EXCEPT ![pos] = c]
  <1>1. \/ ModifyColumn(s, n, op) = Refuse(s)
        \/ /\ ModifyColumn(s, n, op) = r /\ HasColumn(s.table, op.col)
           /\ op.col = c.name \/ ~HasColumn(s.table, c.name)
    BY DEF ModifyColumn
  <1>2. /\ DOMAIN s = StateFields /\ DOMAIN s.table = Fields
        /\ IsSeq(s.table.constraints) /\ IsSeq(s.table.indexes)
    BY AlterParts
  <1>3. Data(s.table) /\ IsColumnDef(c)
    BY DEF AlterData, IsColumnWithConstraints
  <1>4. ASSUME HasColumn(s.table, op.col), op.col = c.name \/ ~HasColumn(s.table, c.name)
        PROVE  AlterData(n, r)
    <2>1. pos \in DOMAIN s.table.columns /\ s.table.columns[pos].name = op.col
      BY <1>4, ColumnFacts
    <2> HIDE DEF pos
    <2>2. d[pos] = c /\ \A i \in DOMAIN s.table.columns : i # pos => d[i] = s.table.columns[i]
      BY <2>1
    <2>3. /\ ColumnsInv(d) /\ DOMAIN d = DOMAIN s.table.columns /\ Len(d) = Len(s.table.columns)
          /\ c.name \in Names(d) /\ \A x \in Names(s.table.columns) : x # op.col => x \in Names(d)
      BY <1>3, <1>4, <2>1, ColumnReplaced DEF Data, HasColumn
    <2> HIDE DEF d
    <2>4. RowsInv(d, ConvertColumn(s.table.rows, pos, c.type))
      BY <1>3, <2>1, <2>2, <2>3, RowsConverted DEF Data, IsColumnDef
    <2>5. /\ DOMAIN t = Fields /\ t.columns = s.table.columns /\ t.rows = s.table.rows
          /\ IsSeq(t.constraints)
          /\ ConstraintsInv(d, t.constraints) /\ IndexesInv(d, t.indexes)
      <3>1. CASE op.col = c.name
        <4>1. Names(s.table.columns) \subseteq Names(d)
          BY <2>3, <3>1
        <4> QED BY <1>2, <1>3, <3>1, <4>1, ExistMore DEF Data
      <3>2. CASE op.col # c.name
        <4> DEFINE v == RenameSchemaReferences(n, s.table, op.col, c.name)
        <4>1. /\ DOMAIN v = Fields /\ v.columns = s.table.columns /\ v.rows = s.table.rows
              /\ IsSeq(v.constraints)
          BY <1>2, RenameReferences
        <4>2. ConstraintsInv(d, v.constraints) /\ IndexesInv(d, v.indexes)
          BY <1>2, <1>3, <2>3, RenameReferencesData DEF Data
        <4>3. t = v
          BY <3>2
        <4> HIDE DEF v, t
        <4> QED BY <4>1, <4>2, <4>3
      <3> QED BY <3>1, <3>2
    <2>6. IsSeq(fresh) /\ ConstraintsInv(d, fresh)
      <3>1. K \subseteq DOMAIN op.def.constraints
        OBVIOUS
      <3> HIDE DEF K
      <3>2. IsSeq(op.def.constraints)
        BY DEF IsColumnWithConstraints, IsSeq
      <3>3. IsSeq(fresh) /\ \A i \in DOMAIN fresh : \E p \in K : fresh[i] = op.def.constraints[p]
        BY <3>1, <3>2, Positions
      <3> HIDE DEF fresh
      <3>4. ASSUME NEW p \in K PROVE ConstraintInv(d, op.def.constraints[p])
        <4> DEFINE e == op.def.constraints[p]
        <4>1. IsConstraintDef(e) /\ Range(e.columns) \subseteq {c.name}
          BY <3>1 DEF IsColumnWithConstraints
        <4> HIDE DEF e
        <4>2. \A i \in DOMAIN e.columns : e.columns[i] \in Names(d)
          BY <2>3, <4>1 DEF Range
        <4> QED BY <4>1, <4>2 DEF ConstraintInv, IsConstraintDef, IsSeq, Exist, e
      <3> QED BY <3>3, <3>4 DEF ConstraintsInv
    <2> HIDE DEF t, fresh
    <2>7. ConstraintsInv(d, t.constraints \o fresh)
      BY <2>5, <2>6, ConstraintsJoined
    <2>8. /\ u.columns = d /\ u.rows = ConvertColumn(s.table.rows, pos, c.type)
          /\ u.constraints = t.constraints \o fresh /\ u.indexes = t.indexes
      BY <2>5 DEF Fields, d
    <2> HIDE DEF u
    <2>9. Data(u)
      BY <2>3, <2>4, <2>5, <2>7, <2>8 DEF Data
    <2>10. r.table = u /\ r.tables = s.tables
      BY <1>2 DEF StateFields
    <2> HIDE DEF r
    <2> QED BY <2>9, <2>10, TableEdited
  <1> QED BY <1>1, <1>4, RefuseData

\* An edit of one column's options.
LEMMA OptionsEdited ==
  ASSUME NEW n, NEW s, AlterInv(n, s), AlterData(n, s), NEW pos \in DOMAIN s.table.columns,
         NEW c, IsColumnDef(c), c.name = s.table.columns[pos].name,
         NEW r, r.tables = s.tables, r.table.columns = [s.table.columns EXCEPT ![pos] = c],
         r.table.constraints = s.table.constraints, r.table.indexes = s.table.indexes,
         \/ r.table.rows = s.table.rows /\ c.type = s.table.columns[pos].type
         \/ r.table.rows = ConvertColumn(s.table.rows, pos, c.type)
  PROVE  AlterData(n, r)
  <1> DEFINE t == s.table
             d == [t.columns EXCEPT ![pos] = c]
  <1>1. Data(t)
    BY DEF AlterData
  <1>2. d[pos] = c /\ \A i \in DOMAIN t.columns : i # pos => d[i] = t.columns[i]
    OBVIOUS
  <1>3. /\ ColumnsInv(d) /\ DOMAIN d = DOMAIN t.columns /\ Len(d) = Len(t.columns)
        /\ c.name \in Names(d) /\ \A x \in Names(t.columns) : x # t.columns[pos].name => x \in Names(d)
    BY <1>1, ColumnReplaced DEF Data
  <1>4. r.table.columns = d
    OBVIOUS
  <1> HIDE DEF d
  <1>5. Names(t.columns) \subseteq Names(d)
    BY <1>3
  <1>6. ConstraintsInv(d, t.constraints) /\ IndexesInv(d, t.indexes)
    BY <1>1, <1>5, ExistMore DEF Data
  <1>7. RowsInv(d, r.table.rows)
    <2>1. CASE r.table.rows = t.rows /\ c.type = t.columns[pos].type
      BY <1>1, <1>2, <1>3, <2>1, RowsStay DEF Data
    <2>2. CASE r.table.rows = ConvertColumn(t.rows, pos, c.type)
      <3>1. RowsInv(d, ConvertColumn(t.rows, pos, c.type))
        BY <1>1, <1>2, <1>3, RowsConverted DEF Data, IsColumnDef
      <3> QED BY <2>2, <3>1
    <2> QED BY <2>1, <2>2
  <1>8. Data(r.table)
    BY <1>3, <1>4, <1>6, <1>7 DEF Data
  <1> QED BY <1>8, TableEdited

\* ALTER COLUMN SET DEFAULT.
LEMMA SetDefaultData ==
  ASSUME NEW n, NEW s, AlterInv(n, s), AlterData(n, s), NEW op, op.val \in SqlValue
  PROVE  AlterData(n, SetDefault(s, op))
  <1> DEFINE t == s.table
             pos == ColumnIndex(t, op.col)
             v == CoerceTo(op.val, t.columns[pos].type)
             c == [t.columns[pos] EXCEPT !.default = v]
             r == [s EXCEPT !.table.columns[pos].default = v]
  <1>1. SetDefault(s, op) = Refuse(s) \/ (SetDefault(s, op) = r /\ HasColumn(t, op.col))
    BY DEF SetDefault
  <1>2. DOMAIN s = StateFields /\ DOMAIN t = Fields
    BY AlterParts
  <1>3. ASSUME HasColumn(t, op.col) PROVE AlterData(n, r)
    <2>1. pos \in DOMAIN t.columns
      BY <1>3, ColumnFacts
    <2> HIDE DEF pos
    <2>2. IsColumnDef(t.columns[pos])
      BY <2>1 DEF AlterData, Data, ColumnsInv
    <2>3. v \in SqlValue
      BY <2>2, CoerceFacts DEF IsColumnDef
    <2> HIDE DEF v
    <2>4. IsColumnDef(c) /\ c.name = t.columns[pos].name /\ c.type = t.columns[pos].type
      BY <2>2, <2>3 DEF IsColumnDef, ColumnFields
    <2>5. /\ r.tables = s.tables /\ r.table.columns = [t.columns EXCEPT ![pos] = c]
          /\ r.table.constraints = t.constraints /\ r.table.indexes = t.indexes
          /\ r.table.rows = t.rows
      BY <1>2, <2>1 DEF StateFields, Fields
    <2> HIDE DEF c, r
    <2> QED BY <2>1, <2>4, <2>5, OptionsEdited
  <1> QED BY <1>1, <1>3, RefuseData

\* ALTER COLUMN SET and DROP NOT NULL.
LEMMA SetNullableData ==
  ASSUME NEW n, NEW s, AlterInv(n, s), AlterData(n, s), NEW op
  PROVE  AlterData(n, SetNullable(s, op))
  <1> DEFINE t == s.table
             pos == ColumnIndex(t, op.col)
             c == [t.columns[pos] EXCEPT !.nullable = op.nullable]
             r == [s EXCEPT !.table.columns[pos].nullable = op.nullable]
  <1>1. SetNullable(s, op) = Refuse(s) \/ (SetNullable(s, op) = r /\ HasColumn(t, op.col))
    BY DEF SetNullable
  <1>2. DOMAIN s = StateFields /\ DOMAIN t = Fields
    BY AlterParts
  <1>3. ASSUME HasColumn(t, op.col) PROVE AlterData(n, r)
    <2>1. pos \in DOMAIN t.columns
      BY <1>3, ColumnFacts
    <2> HIDE DEF pos
    <2>2. IsColumnDef(t.columns[pos])
      BY <2>1 DEF AlterData, Data, ColumnsInv
    <2>3. IsColumnDef(c) /\ c.name = t.columns[pos].name /\ c.type = t.columns[pos].type
      BY <2>2 DEF IsColumnDef, ColumnFields
    <2>4. /\ r.tables = s.tables /\ r.table.columns = [t.columns EXCEPT ![pos] = c]
          /\ r.table.constraints = t.constraints /\ r.table.indexes = t.indexes
          /\ r.table.rows = t.rows
      BY <1>2, <2>1 DEF StateFields, Fields
    <2> HIDE DEF c, r
    <2> QED BY <2>1, <2>3, <2>4, OptionsEdited
  <1> QED BY <1>1, <1>3, RefuseData

\* ALTER COLUMN SET DATA TYPE converts the values and the default.
LEMMA SetDataTypeData ==
  ASSUME NEW n, NEW s, AlterInv(n, s), AlterData(n, s), NEW op, op.type \in DataType
  PROVE  AlterData(n, SetDataType(s, op))
  <1> DEFINE t == s.table
             pos == ColumnIndex(t, op.col)
             v == CoerceTo(t.columns[pos].default, op.type)
             c == [t.columns[pos] EXCEPT !.default = v, !.type = op.type]
             r == [s EXCEPT !.table.rows = ConvertColumn(@, pos, op.type),
                            !.table.columns[pos].default = CoerceTo(@, op.type),
                            !.table.columns[pos].type = op.type]
  <1>1. SetDataType(s, op) = Refuse(s) \/ (SetDataType(s, op) = r /\ HasColumn(t, op.col))
    BY DEF SetDataType
  <1>2. DOMAIN s = StateFields /\ DOMAIN t = Fields
    BY AlterParts
  <1>3. ASSUME HasColumn(t, op.col) PROVE AlterData(n, r)
    <2>1. pos \in DOMAIN t.columns
      BY <1>3, ColumnFacts
    <2> HIDE DEF pos
    <2>2. IsColumnDef(t.columns[pos])
      BY <2>1 DEF AlterData, Data, ColumnsInv
    <2>3. v \in SqlValue
      BY <2>2, CoerceFacts DEF IsColumnDef
    <2>4. /\ r.tables = s.tables /\ r.table.columns = [t.columns EXCEPT ![pos] = c]
          /\ r.table.constraints = t.constraints /\ r.table.indexes = t.indexes
          /\ r.table.rows = ConvertColumn(t.rows, pos, op.type)
      BY <1>2, <2>1 DEF StateFields, Fields
    <2> HIDE DEF v
    <2>5. IsColumnDef(c) /\ c.name = t.columns[pos].name /\ c.type = op.type
      BY <2>2, <2>3 DEF IsColumnDef, ColumnFields
    <2> HIDE DEF c, r
    <2> QED BY <2>1, <2>4, <2>5, OptionsEdited
  <1> QED BY <1>1, <1>3, RefuseData

\* ADD CONSTRAINT: its columns were checked.
LEMMA AddConstraintData ==
  ASSUME NEW n, NEW s, AlterInv(n, s), AlterData(n, s), NEW op, IsConstraintDef(op.constraint)
  PROVE  AlterData(n, AddConstraint(s, op))
  <1> DEFINE t == s.table
             c == op.constraint
             r == [s EXCEPT !.table.constraints = Append(@, c)]
  <1>1. AddConstraint(s, op) = Refuse(s) \/ (AddConstraint(s, op) = r /\ HasColumns(t, c.columns))
    BY DEF AddConstraint
  <1>2. DOMAIN s = StateFields /\ DOMAIN t = Fields /\ IsSeq(t.constraints)
    BY AlterParts
  <1>3. ASSUME HasColumns(t, c.columns) PROVE AlterData(n, r)
    <2>1. /\ r.tables = s.tables /\ r.table.columns = t.columns
          /\ r.table.constraints = Append(t.constraints, c) /\ r.table.indexes = t.indexes
          /\ r.table.rows = t.rows
      BY <1>2 DEF StateFields, Fields
    <2> HIDE DEF r
    <2>2. Data(t)
      BY DEF AlterData
    <2>3. ConstraintInv(t.columns, c)
      BY <1>3, ExistMeans DEF ConstraintInv, IsConstraintDef, IsSeq
    <2>4. /\ Len(t.constraints) \in Nat /\ DOMAIN t.constraints = 1..Len(t.constraints)
          /\ DOMAIN Append(t.constraints, c) = 1..(Len(t.constraints) + 1)
          /\ \A i \in 1..Len(t.constraints) : Append(t.constraints, c)[i] = t.constraints[i]
          /\ Append(t.constraints, c)[Len(t.constraints) + 1] = c
      BY <1>2, AppendFacts
    <2>5. \A i \in 1..(Len(t.constraints) + 1) : i \in 1..Len(t.constraints) \/ i = Len(t.constraints) + 1
      BY <2>4
    <2>6. ConstraintsInv(t.columns, Append(t.constraints, c))
      BY <2>2, <2>3, <2>4, <2>5 DEF Data, ConstraintsInv
    <2>7. Data(r.table)
      BY <2>1, <2>2, <2>6 DEF Data
    <2> QED BY <2>1, <2>7, TableEdited
  <1> QED BY <1>1, <1>3, RefuseData

\* DROP CONSTRAINT and DROP PRIMARY KEY.
LEMMA DropFirstData ==
  ASSUME NEW n, NEW s, AlterInv(n, s), AlterData(n, s), NEW fits,
         fits \subseteq DOMAIN s.table.constraints, NEW lenient
  PROVE  AlterData(n, DropFirst(s, fits, lenient))
  <1> DEFINE t == s.table
             pos == CHOOSE i \in fits : \A j \in fits : i <= j
             r == [s EXCEPT !.table.constraints = RemoveAt(@, pos)]
  <1>1. DropFirst(s, fits, lenient) \in {s, Refuse(s)} \/ (DropFirst(s, fits, lenient) = r /\ fits # {})
    BY DEF DropFirst
  <1>2. DOMAIN s = StateFields /\ DOMAIN t = Fields /\ IsSeq(t.constraints)
    BY AlterParts
  <1>3. ASSUME fits # {} PROVE AlterData(n, r)
    <2>1. pos \in DOMAIN t.constraints
      <3>1. fits \subseteq Nat
        BY <1>2, SeqIsFunction
      <3>2. \E i \in fits : \A j \in fits : i <= j
        BY <1>3, <3>1, LeastNumber
      <3> QED BY <3>2
    <2> HIDE DEF pos
    <2>2. /\ r.tables = s.tables /\ r.table.columns = t.columns
          /\ r.table.constraints = RemoveAt(t.constraints, pos) /\ r.table.indexes = t.indexes
          /\ r.table.rows = t.rows
      BY <1>2 DEF StateFields, Fields
    <2> HIDE DEF r
    <2>3. Data(t)
      BY DEF AlterData
    <2> DEFINE N == Len(t.constraints)
               d == RemoveAt(t.constraints, pos)
    <2>4. /\ N \in Nat /\ DOMAIN t.constraints = 1..N /\ DOMAIN d = 1..(N - 1)
          /\ \A i \in 1..(N - 1) : d[i] = t.constraints[IF i < pos THEN i ELSE i + 1]
      BY <1>2, <2>1, RemoveAtFacts, SeqIsFunction
    <2>5. \A i \in 1..(N - 1) : (IF i < pos THEN i ELSE i + 1) \in 1..N
      BY <2>1, <2>4
    <2> HIDE DEF d
    <2>6. ConstraintsInv(t.columns, d)
      BY <2>3, <2>4, <2>5 DEF Data, ConstraintsInv
    <2>7. Data(r.table)
      BY <2>2, <2>3, <2>6 DEF Data, d
    <2> QED BY <2>2, <2>7, TableEdited
  <1> QED BY <1>1, <1>3, RefuseData

\* apply_alter_operation.
LEMMA ApplyData ==
  ASSUME NEW n, NEW s, AlterInv(n, s), AlterData(n, s), NEW op, IsAlterOperation(op)
  PROVE  AlterData(n, ApplyAlterOperation(n, s, op))
  <1> DEFINE r == CASE op.kind = "AddColumn"      -> AddColumn(s, op)
                    [] op.kind = "DropColumn"     -> DropColumn(s, n, op)
                    [] op.kind = "RenameColumn"   -> RenameColumn(s, n, op)
                    [] op.kind = "ModifyColumn"   -> ModifyColumn(s, n, op)
                    [] op.kind = "SetDefault"     -> SetDefault(s, op)
                    [] op.kind = "SetNullable"    -> SetNullable(s, op)
                    [] op.kind = "SetDataType"    -> SetDataType(s, op)
                    [] op.kind = "AddConstraint"  -> AddConstraint(s, op)
                    [] op.kind = "DropConstraint" -> DropConstraint(s, n, op)
                    [] op.kind = "DropPrimaryKey" -> DropPrimaryKey(s)
             u == RefreshConstraintMetadata(n, r.table)
             a == [r EXCEPT !.table = u]
  <1>1. ApplyAlterOperation(n, s, op) = IF r.ok THEN a ELSE r
    BY DEF ApplyAlterOperation
  <1>2. AlterInv(n, r)
    <2>1. CASE op.kind = "AddColumn"
      BY <2>1, AddColumnKeeps, ColumnWithConstraints
    <2>2. CASE op.kind = "DropColumn"
      BY <2>2, DropColumnKeeps
    <2>3. CASE op.kind = "RenameColumn"
      BY <2>3, RenameColumnKeeps
    <2>4. CASE op.kind = "ModifyColumn"
      BY <2>4, ModifyColumnKeeps, ColumnWithConstraints
    <2>5. CASE op.kind = "SetDefault"
      BY <2>5, SetDefaultKeeps
    <2>6. CASE op.kind = "SetNullable"
      BY <2>6, SetNullableKeeps
    <2>7. CASE op.kind = "SetDataType"
      BY <2>7, SetDataTypeKeeps
    <2>8. CASE op.kind = "AddConstraint"
      BY <2>8, AddConstraintKeeps
    <2>9. CASE op.kind = "DropConstraint"
      <3>1. AlterInv(n, DropConstraint(s, n, op))
        BY DropFirstKeeps DEF DropConstraint
      <3> QED BY <2>9, <3>1
    <2>10. CASE op.kind = "DropPrimaryKey"
      <3>1. AlterInv(n, DropPrimaryKey(s))
        BY DropFirstKeeps DEF DropPrimaryKey
      <3> QED BY <2>10, <3>1
    <2> QED BY <2>1, <2>2, <2>3, <2>4, <2>5, <2>6, <2>7, <2>8, <2>9, <2>10
            DEF IsAlterOperation, AlterKinds
  <1>3. AlterData(n, r)
    <2>1. CASE op.kind = "AddColumn"
      BY <2>1, AddColumnData DEF IsAlterOperation
    <2>2. CASE op.kind = "DropColumn"
      BY <2>2, DropColumnData
    <2>3. CASE op.kind = "RenameColumn"
      BY <2>3, RenameColumnData
    <2>4. CASE op.kind = "ModifyColumn"
      BY <2>4, ModifyColumnData DEF IsAlterOperation
    <2>5. CASE op.kind = "SetDefault"
      BY <2>5, SetDefaultData DEF IsAlterOperation
    <2>6. CASE op.kind = "SetNullable"
      BY <2>6, SetNullableData
    <2>7. CASE op.kind = "SetDataType"
      BY <2>7, SetDataTypeData DEF IsAlterOperation
    <2>8. CASE op.kind = "AddConstraint"
      BY <2>8, AddConstraintData DEF IsAlterOperation
    <2>9. CASE op.kind = "DropConstraint"
      <3>1. AlterData(n, DropConstraint(s, n, op))
        BY DropFirstData DEF DropConstraint
      <3> QED BY <2>9, <3>1
    <2>10. CASE op.kind = "DropPrimaryKey"
      <3>1. AlterData(n, DropPrimaryKey(s))
        BY DropFirstData DEF DropPrimaryKey
      <3> QED BY <2>10, <3>1
    <2> QED BY <2>1, <2>2, <2>3, <2>4, <2>5, <2>6, <2>7, <2>8, <2>9, <2>10
            DEF IsAlterOperation, AlterKinds
  <1> HIDE DEF r
  <1>4. Data(u)
    BY <1>2, <1>3, RefreshData DEF AlterInv, AlterData, DataInv
  <1> HIDE DEF u
  <1>5. a.table = u /\ a.tables = r.tables
    BY <1>2 DEF AlterInv, StateFields
  <1>6. AlterData(n, a)
    BY <1>3, <1>4, <1>5, TableEdited
  <1> QED BY <1>1, <1>3, <1>6

\* execute_alter_table.
LEMMA AlterKeepsData ==
  ASSUME NEW cat, CatInv(cat), CatData(cat), NEW n \in DOMAIN cat, NEW ops, IsSeq(ops),
         \A i \in DOMAIN ops : IsAlterOperation(ops[i])
  PROVE  CatData(ExecuteAlterTable(cat, n, ops).tables)
  <1> DEFINE N == Len(ops)
             first == [ok |-> TRUE, tables |-> cat, table |-> cat[n]]
             m == AlterStates(cat, n, ops)
             S == {k \in 0..N : AlterData(n, m[k])}
             s == m[N]
             t == RefreshConstraintMetadata(n, s.table)
             c == Store(s.tables, n, t)
  <1>0. N \in Nat /\ 0 \in 0..N /\ N \in 0..N /\ DOMAIN ops = 1..N
    BY SeqIsFunction
  <1>1. /\ m[0] = first
        /\ \A k \in 0..(N - 1) :
             m[k + 1] = IF m[k].ok THEN ApplyAlterOperation(n, m[k], ops[k + 1]) ELSE m[k]
    BY AlterSteps
  <1>2. \A k \in 0..N : AlterInv(n, m[k])
    BY AlterStatesKeep
  <1>3. ExecuteAlterTable(cat, n, ops).tables = c
    BY DEF ExecuteAlterTable, Result
  <1> HIDE DEF m
  <1>4. 0 \in S
    <2>1. first.table = cat[n] /\ first.tables = cat
      OBVIOUS
    <2>2. AlterData(n, first)
      BY <2>1 DEF AlterData, CatData, DataInv
    <2> QED BY <1>0, <1>1, <2>2
  <1>5. ASSUME NEW k \in 0..(N - 1), k \in S PROVE k + 1 \in S
    <2>1. k + 1 \in 0..N /\ k + 1 \in DOMAIN ops /\ k \in 0..N
      BY <1>0
    <2>2. AlterData(n, ApplyAlterOperation(n, m[k], ops[k + 1]))
      BY <1>2, <1>5, <2>1, ApplyData
    <2>3. AlterData(n, m[k + 1])
      BY <1>1, <1>5, <2>2
    <2> QED BY <2>1, <2>3
  <1>6. N \in S
    <2> HIDE DEF S
    <2> QED BY <1>0, <1>4, <1>5, UpTo
  <1>7. AlterInv(n, s) /\ AlterData(n, s)
    BY <1>0, <1>2, <1>6
  <1> HIDE DEF s
  <1>8. DataInv(t)
    BY <1>7, RefreshData DEF AlterInv, AlterData
  <1>9. n \in TableNames
    BY DEF CatData
  <1> HIDE DEF t
  <1>10. CatData(c)
    BY <1>7, <1>8, <1>9 DEF AlterData, CatData, Store
  <1> HIDE DEF c
  <1> QED BY <1>3, <1>10

---------------------------------------------------------------------------
(* The other schema statements *)

\* A table put into the catalog.
LEMMA StoreData ==
  ASSUME NEW cat, CatData(cat), NEW n \in TableNames, NEW t, DataInv(t)
  PROVE  CatData(Store(cat, n, t))
  BY DEF CatData, Store

\* Rebuilding runtime indexes leaves the data alone.
LEMMA RebuildData ==
  ASSUME NEW t, DOMAIN t = Fields, DataInv(t)
  PROVE  DataInv(RebuildIndex(t))
  <1> DEFINE r == RebuildIndex(t)
  <1>1. r = [t EXCEPT !.runtime = [name \in Names(t.indexes) |-> BuildIndex(t, LastNamed(t, name))]]
    BY DEF RebuildIndex
  <1> HIDE DEF r
  <1>2. /\ r.columns = t.columns /\ r.constraints = t.constraints /\ r.indexes = t.indexes
        /\ r.rows = t.rows
    BY <1>1 DEF Fields
  <1>3. DataInv(r)
    BY <1>2 DEF DataInv, Data, Refreshed
  <1> QED BY <1>3 DEF r

\* The columns of a definition that passed the check have different names.
LEMMA NamesCounted ==
  ASSUME NEW cs, IsSeq(cs)
  PROVE  Cardinality(Names(cs)) = Len(cs) <=>
           \A i, j \in DOMAIN cs : cs[i].name = cs[j].name => i = j
  <1> DEFINE f == [i \in 1..Len(cs) |-> cs[i].name]
  <1>1. Len(cs) \in Nat /\ DOMAIN cs = 1..Len(cs)
    BY SeqIsFunction
  <1>2. f = [i \in 1..Len(cs) |-> f[i]] /\ \A i \in 1..Len(cs) : f[i] = cs[i].name
    OBVIOUS
  <1> HIDE DEF f
  <1>3. Names(cs) = {f[i] : i \in 1..Len(cs)}
    BY <1>1, <1>2 DEF Names
  <1>4. Cardinality({f[i] : i \in 1..Len(cs)}) = Len(cs) <=>
          \A i, j \in 1..Len(cs) : f[i] = f[j] => i = j
    BY <1>1, <1>2, DistinctValues
  <1> QED BY <1>1, <1>2, <1>3, <1>4

\* execute_create_table.
LEMMA CreateTableKeepsData ==
  ASSUME NEW cat, CatData(cat), NEW n \in TableNames, NEW def \in TableDefs[n]
  PROVE  CatData(ExecuteCreateTable(cat, n, def).tables)
  <1> DEFINE K == {i \in DOMAIN def.constraints : def.constraints[i].kind = "PrimaryKey"}
             primary == At(def.constraints, K)
             cols == Marked(def.columns, primary)
             bare == [columns |-> cols, constraints |-> def.constraints, indexes |-> <<>>,
                      rows |-> <<>>, ids |-> <<>>, next |-> 1, runtime |-> <<>>]
             auto == AutomaticIndexes(n, bare)
             u == [bare EXCEPT !.indexes = auto]
             r == RebuildIndex(u)
             res == ExecuteCreateTable(cat, n, def)
             keyed == {c \in Range(def.constraints) : c.kind # "Check"}
  <1>1. \/ res.tables = cat
        \/ /\ res.tables = Store(cat, n, r)
           /\ Cardinality(Names(def.columns)) = Len(def.columns)
           /\ \A c \in keyed : Range(c.columns) \subseteq Names(def.columns)
    BY DEF ExecuteCreateTable, NewTable, Result
  <1>2. /\ IsSeq(def.columns) /\ \A i \in DOMAIN def.columns : IsColumnDef(def.columns[i])
        /\ IsSeq(def.constraints)
        /\ \A i \in DOMAIN def.constraints : IsConstraintDef(def.constraints[i])
    <2>1. /\ def.columns \in Seq(Range(def.columns))
          /\ \A i \in DOMAIN def.columns : IsColumnDef(def.columns[i])
          /\ def.constraints \in Seq(Range(def.constraints))
          /\ \A i \in DOMAIN def.constraints : IsConstraintDef(def.constraints[i])
      BY CatalogAssumption
    <2> QED BY <2>1 DEF IsSeq
  <1>3. ASSUME Cardinality(Names(def.columns)) = Len(def.columns),
               \A c \in keyed : Range(c.columns) \subseteq Names(def.columns)
        PROVE  DataInv(r)
    <2>1. ColumnsInv(def.columns)
      BY <1>2, <1>3, NamesCounted DEF ColumnsInv
    <2>2. ConstraintsInv(def.columns, def.constraints)
      <3>1. SUFFICES ASSUME NEW k \in DOMAIN def.constraints
                     PROVE  ConstraintInv(def.columns, def.constraints[k])
        BY DEF ConstraintsInv
      <3> DEFINE c == def.constraints[k]
      <3>2. IsConstraintDef(c) /\ c \in Range(def.constraints)
        BY <1>2 DEF Range
      <3>3. DOMAIN c = ConstraintFields /\ IsSeq(c.columns)
        BY <3>2 DEF IsConstraintDef, IsSeq
      <3>4. CASE c.kind = "Check"
        <4>1. c.columns = <<>>
          BY <3>2, <3>4 DEF IsConstraintDef
        <4>2. Exist(def.columns, c.columns)
          BY <4>1 DEF Exist
        <4> QED BY <3>3, <4>2 DEF ConstraintInv
      <3>5. CASE c.kind # "Check"
        <4>1. Range(c.columns) \subseteq Names(def.columns)
          BY <1>3, <3>2, <3>5
        <4>2. Exist(def.columns, c.columns)
          BY <4>1 DEF Exist, Range
        <4> QED BY <3>3, <4>2 DEF ConstraintInv
      <3> QED BY <3>4, <3>5
    <2>3. /\ IsSeq(primary)
          /\ \A k \in K : \E i \in DOMAIN primary : primary[i] = def.constraints[k]
      <3>1. K \subseteq DOMAIN def.constraints
        OBVIOUS
      <3> HIDE DEF K
      <3>2. IsSeq(primary)
        BY <1>2, <3>1, Positions
      <3>3. ASSUME NEW k \in K PROVE \E i \in DOMAIN primary : primary[i] = def.constraints[k]
        BY <1>2, <3>1, AtOnto
      <3> QED BY <3>2, <3>3
    <2> HIDE DEF primary
    <2>4. /\ IsColumns(cols) /\ SameColumns(def.columns, cols)
          /\ \A i \in DOMAIN primary : NotNull(cols, primary[i])
      BY <2>1, <2>3, AreColumns, MarkedColumns
    <2> HIDE DEF cols
    <2>5. \A k \in DOMAIN def.constraints : NotNull(cols, def.constraints[k])
      <3>1. ASSUME NEW k \in DOMAIN def.constraints, def.constraints[k].kind = "PrimaryKey"
            PROVE  NotNull(cols, def.constraints[k])
        <4>1. k \in K
          BY <3>1
        <4> QED BY <4>1, <2>3, <2>4
      <3>2. ASSUME NEW k \in DOMAIN def.constraints, def.constraints[k].kind # "PrimaryKey"
            PROVE  NotNull(cols, def.constraints[k])
        BY <3>2 DEF NotNull
      <3> QED BY <3>1, <3>2
    <2>6. ColumnsInv(cols) /\ ConstraintsInv(cols, def.constraints)
      BY <2>1, <2>2, <2>4, SameColumnsKeep
    <2>7. bare.columns = cols /\ bare.constraints = def.constraints
      OBVIOUS
    <2>8. IsSeq(auto)
      BY <1>2, <2>4, <2>7, AutoFacts DEF IsColumns
    <2>9. \A i \in DOMAIN auto : IndexDefInv(cols, auto[i]) /\ Exist(cols, auto[i].columns)
      <3> HIDE DEF bare
      <3> QED BY <1>2, <2>4, <2>6, <2>7, AutoExist DEF IsColumns
    <2> HIDE DEF auto
    <2>10. /\ DOMAIN u = Fields /\ u.columns = cols /\ u.constraints = def.constraints
           /\ u.indexes = auto /\ u.rows = <<>> /\ u.ids = <<>> /\ u.next = 1
      BY DEF Fields
    <2> HIDE DEF u
    <2>11. DataInv(u)
      <3>1. RowsInv(u.columns, u.rows)
        BY <2>10 DEF RowsInv
      <3>2. Data(u)
        BY <2>6, <2>9, <2>10, <3>1 DEF Data, IndexesInv
      <3>3. Refreshed(u)
        BY <2>5, <2>9, <2>10 DEF Refreshed
      <3> QED BY <3>2, <3>3 DEF DataInv
    <2> QED BY <2>10, <2>11, RebuildData
  <1> HIDE DEF r, res, keyed
  <1> QED BY <1>1, <1>3, StoreData DEF res

\* execute_drop_table.
LEMMA DropTableKeepsData ==
  ASSUME NEW cat, CatData(cat), NEW n
  PROVE  CatData(ExecuteDropTable(cat, n).tables)
  <1> DEFINE c == ExecuteDropTable(cat, n).tables
  <1>1. DOMAIN c \subseteq DOMAIN cat /\ \A m \in DOMAIN c : c[m] = cat[m]
    BY DEF ExecuteDropTable, Result
  <1> HIDE DEF c
  <1>2. CatData(c)
    BY <1>1 DEF CatData
  <1> QED BY <1>2 DEF c

\* execute_create_index: the columns were checked.
LEMMA CreateIndexKeepsData ==
  ASSUME NEW cat, CatInv(cat), CatData(cat), NEW n \in DOMAIN cat, NEW def \in IndexDefs
  PROVE  CatData(ExecuteCreateIndex(cat, n, def).tables)
  <1> DEFINE t == cat[n]
             ix == [name |-> def.name, columns |-> def.columns,
                    unique |-> def.unique, automatic |-> FALSE]
             u == [t EXCEPT !.indexes = Append(@, ix)]
             c == Store(cat, n, RebuildIndex(u))
             res == ExecuteCreateIndex(cat, n, def)
  <1>1. res.tables = cat \/ (res.tables = c /\ HasColumns(t, def.columns))
    BY DEF ExecuteCreateIndex, Result
  <1>2. RawInv(t) /\ DOMAIN t = Fields /\ IsSeq(t.indexes)
    BY DEF CatInv, TableInv, RawInv, Shape
  <1>3. DataInv(t) /\ n \in TableNames
    BY DEF CatData
  <1>4. def.columns \in Seq(Range(def.columns))
    BY CatalogAssumption
  <1>5. ASSUME HasColumns(t, def.columns) PROVE CatData(c)
    <2>1. /\ IndexDefInv(t.columns, ix) /\ Exist(t.columns, ix.columns)
      <3>1. DOMAIN ix = IndexDefFields /\ ix.columns = def.columns
        BY DEF IndexDefFields
      <3>2. IsSeq(def.columns)
        BY <1>4 DEF IsSeq
      <3> HIDE DEF ix
      <3> QED BY <1>5, <3>1, <3>2, ExistMeans DEF IndexDefInv
    <2> HIDE DEF ix
    <2>2. /\ DOMAIN u = Fields /\ u.columns = t.columns /\ u.constraints = t.constraints
          /\ u.indexes = Append(t.indexes, ix) /\ u.rows = t.rows /\ u.ids = t.ids /\ u.next = t.next
      BY <1>2 DEF Fields
    <2>3. /\ IsSeq(u.indexes) /\ Len(t.indexes) \in Nat /\ DOMAIN t.indexes = 1..Len(t.indexes)
          /\ DOMAIN u.indexes = 1..(Len(t.indexes) + 1)
          /\ \A i \in 1..Len(t.indexes) : u.indexes[i] = t.indexes[i]
          /\ u.indexes[Len(t.indexes) + 1] = ix
      BY <1>2, <2>2, AppendFacts
    <2> HIDE DEF u
    <2>5. \A k \in DOMAIN u.indexes : u.indexes[k] = ix \/ \E j \in DOMAIN t.indexes : u.indexes[k] = t.indexes[j]
      <3>1. \A k \in 1..(Len(t.indexes) + 1) : k \in 1..Len(t.indexes) \/ k = Len(t.indexes) + 1
        BY <2>3
      <3> QED BY <2>3, <3>1
    <2>6. IndexesInv(u.columns, u.indexes) /\ \A k \in DOMAIN u.indexes : Exist(u.columns, u.indexes[k].columns)
      BY <1>3, <2>1, <2>2, <2>5 DEF DataInv, Data, Refreshed, IndexesInv
    <2>7. DataInv(u)
      BY <1>3, <2>2, <2>6 DEF DataInv, Data, Refreshed
    <2> QED BY <1>3, <2>2, <2>7, RebuildData, StoreData
  <1> HIDE DEF c, res
  <1> QED BY <1>1, <1>5 DEF res

\* execute_drop_index.
LEMMA DropIndexKeepsData ==
  ASSUME NEW cat, CatInv(cat), CatData(cat), NEW n \in DOMAIN cat, NEW name
  PROVE  CatData(ExecuteDropIndex(cat, n, name).tables)
  <1> DEFINE t == cat[n]
             named == {i \in DOMAIN t.indexes : t.indexes[i].name = name}
             pos == CHOOSE i \in named : \A j \in named : i <= j
             u == [t EXCEPT !.indexes = RemoveAt(@, pos)]
             c == Store(cat, n, RebuildIndex(u))
             res == ExecuteDropIndex(cat, n, name)
  <1>1. res.tables = cat \/ (named # {} /\ res.tables = c)
    BY DEF ExecuteDropIndex, Result
  <1>2. RawInv(t) /\ DOMAIN t = Fields /\ IsSeq(t.indexes)
    BY DEF CatInv, TableInv, RawInv, Shape
  <1>3. DataInv(t) /\ n \in TableNames
    BY DEF CatData
  <1>4. named # {} => pos \in DOMAIN t.indexes
    <2>1. named \subseteq Nat
      BY <1>2, SeqIsFunction
    <2>2. named # {} => \E i \in named : \A j \in named : i <= j
      BY <2>1, LeastNumber
    <2> QED BY <2>2
  <1> HIDE DEF named, pos
  <1>5. /\ DOMAIN u = Fields /\ u.columns = t.columns /\ u.constraints = t.constraints
        /\ u.indexes = RemoveAt(t.indexes, pos) /\ u.rows = t.rows /\ u.ids = t.ids
        /\ u.next = t.next
    BY <1>2 DEF Fields
  <1> HIDE DEF u
  <1>6. ASSUME pos \in DOMAIN t.indexes PROVE CatData(c)
    <2>1. /\ IsSeq(u.indexes) /\ DOMAIN u.indexes = 1..(Len(t.indexes) - 1)
          /\ \A i \in 1..(Len(t.indexes) - 1) : u.indexes[i] = t.indexes[IF i < pos THEN i ELSE i + 1]
      BY <1>2, <1>5, <1>6, RemoveAtFacts
    <2>2. Len(t.indexes) \in Nat /\ DOMAIN t.indexes = 1..Len(t.indexes)
      BY <1>2, SeqIsFunction
    <2>4. \A i \in 1..(Len(t.indexes) - 1) : (IF i < pos THEN i ELSE i + 1) \in DOMAIN t.indexes
      BY <1>6, <2>2
    <2>5. IndexesInv(u.columns, u.indexes) /\ \A k \in DOMAIN u.indexes : Exist(u.columns, u.indexes[k].columns)
      BY <1>3, <1>5, <2>1, <2>4 DEF DataInv, Data, Refreshed, IndexesInv
    <2>6. DataInv(u)
      BY <1>3, <1>5, <2>5 DEF DataInv, Data, Refreshed
    <2> QED BY <1>3, <1>5, <2>6, RebuildData, StoreData
  <1> HIDE DEF c, res
  <1> QED BY <1>1, <1>4, <1>6 DEF res

---------------------------------------------------------------------------
(* INSERT *)

\* A row of values of which those that fit their column have exactly its type.
Settled(cs, row) ==
  /\ IsSeq(row) /\ Len(row) = Len(cs)
  /\ \A i \in DOMAIN cs :
       row[i] \in SqlValue /\ (IsCompatibleWith(row[i], cs[i].type) => Typed(cs[i], row[i]))

IsValues(raw) == IsSeq(raw) /\ \A i \in DOMAIN raw : raw[i] \in SqlValue

\* What INSERT stores for a value.
Fitted(v, type) == IF IsCompatibleWith(v, type) THEN CoerceTo(v, type) ELSE v

\* A value converted where it fits.
LEMMA FittedFacts ==
  ASSUME NEW v \in SqlValue, NEW column, column.type \in DataType
  PROVE  /\ Fitted(v, column.type) \in SqlValue
         /\ IsCompatibleWith(Fitted(v, column.type), column.type) => Typed(column, Fitted(v, column.type))
  <1>1. CASE IsCompatibleWith(v, column.type)
    BY <1>1, CoerceFacts DEF Fitted, Typed
  <1>2. CASE ~IsCompatibleWith(v, column.type)
    BY <1>2 DEF Fitted
  <1> QED BY <1>1, <1>2

\* A stored row is settled, and a settled row that is valid may be stored.
LEMMA SettledFacts ==
  ASSUME NEW t, ColumnsInv(t.columns), NEW row
  PROVE  /\ RowInv(t.columns, row) => Settled(t.columns, row)
         /\ Settled(t.columns, row) /\ ValidateRow(t, row) => RowInv(t.columns, row)
  <1>1. RowInv(t.columns, row) => Settled(t.columns, row)
    BY DEF RowInv, Settled, Typed
  <1>2. ASSUME Settled(t.columns, row), ValidateRow(t, row) PROVE RowInv(t.columns, row)
    <2>1. DOMAIN row = DOMAIN t.columns /\ IsSeq(row) /\ Len(row) = Len(t.columns)
      BY <1>2, SeqIsFunction DEF Settled, ColumnsInv
    <2>2. ASSUME NEW i \in DOMAIN t.columns PROVE Typed(t.columns[i], row[i])
      <3>1. IsCompatibleWith(row[i], t.columns[i].type)
        BY <1>2, <2>1 DEF ValidateRow, IsCompatibleWith
      <3> QED BY <1>2, <3>1 DEF Settled
    <2> QED BY <2>1, <2>2 DEF RowInv
  <1> QED BY <1>1, <1>2

\* The row INSERT puts together from the values of a statement.
LEMMA OrderedSettled ==
  ASSUME NEW t, ColumnsInv(t.columns), NEW cols, IsSeq(cols), NEW raw, IsValues(raw), RowFits(t, cols, raw)
  PROVE  Settled(t.columns, OrderedRow(t, cols, raw))
  <1> DEFINE given(c) == {i \in DOMAIN cols : cols[i] = c}
             value(i) == IF cols = <<>> THEN raw[i]
                         ELSE IF given(t.columns[i].name) = {} THEN Null
                         ELSE raw[CHOOSE j \in given(t.columns[i].name) : TRUE]
             filled(i) == IF IsNull(value(i)) THEN t.columns[i].default ELSE value(i)
             r == OrderedRow(t, cols, raw)
  <1>1. r = [i \in DOMAIN t.columns |-> Fitted(filled(i), t.columns[i].type)]
    BY DEF OrderedRow, Fitted
  <1> HIDE DEF r
  <1>2. ASSUME NEW i \in DOMAIN t.columns PROVE value(i) \in SqlValue
    <2>1. CASE cols = <<>>
      <3>1. Len(raw) = Len(t.columns)
        BY <2>1 DEF RowFits
      <3>2. DOMAIN raw = DOMAIN t.columns
        BY <3>1, SeqIsFunction DEF IsValues, ColumnsInv
      <3> QED BY <2>1, <3>2 DEF IsValues
    <2>2. CASE cols # <<>>
      <3>1. Len(raw) = Len(cols)
        BY <2>2 DEF RowFits
      <3>2. DOMAIN raw = DOMAIN cols
        BY <3>1, SeqIsFunction DEF IsValues
      <3>3. CASE given(t.columns[i].name) = {}
        BY <2>2, <3>3 DEF SqlValue
      <3>4. CASE given(t.columns[i].name) # {}
        <4>1. (CHOOSE j \in given(t.columns[i].name) : TRUE) \in DOMAIN cols
          BY <3>4
        <4> QED BY <2>2, <3>2, <3>4, <4>1 DEF IsValues
      <3> QED BY <3>3, <3>4
    <2> QED BY <2>1, <2>2
  <1> HIDE DEF value
  <1>3. ASSUME NEW i \in DOMAIN t.columns PROVE filled(i) \in SqlValue /\ t.columns[i].type \in DataType
    <2>1. t.columns[i].default \in SqlValue /\ t.columns[i].type \in DataType
      BY DEF ColumnsInv, IsColumnDef
    <2> QED BY <1>2, <2>1
  <1> HIDE DEF filled
  <1>4. IsSeq(r) /\ Len(r) = Len(t.columns)
    <2>1. r = [i \in DOMAIN t.columns |-> r[i]]
      BY <1>1
    <2> QED BY <2>1, MappedIsSeq DEF ColumnsInv
  <1>5. ASSUME NEW i \in DOMAIN t.columns
        PROVE  r[i] \in SqlValue /\ (IsCompatibleWith(r[i], t.columns[i].type) => Typed(t.columns[i], r[i]))
    <2>1. r[i] = Fitted(filled(i), t.columns[i].type)
      BY <1>1
    <2> QED BY <1>3, <2>1, FittedFacts
  <1>6. Settled(t.columns, r)
    BY <1>4, <1>5 DEF Settled
  <1> QED BY <1>6 DEF r

\* The assignments of ON DUPLICATE KEY UPDATE are made one after the other.
LEMMA OnDuplicateSteps ==
  ASSUME NEW t, NEW list, IsSeq(list), NEW current, NEW incoming
  PROVE  \E m : /\ OnDuplicate(t, list, current, incoming) = m[Len(list)]
               /\ m[0] = [ok |-> TRUE, row |-> current]
               /\ \A k \in 0..(Len(list) - 1) :
                    m[k + 1] = Assigned(t, list[k + 1], m[k], incoming)
  <1> DEFINE N == Len(list)
             first == [ok |-> TRUE, row |-> current]
             Step(r, i) == Assigned(t, list[i], r, incoming)
             Body(g, i) == IF i = 0 THEN first ELSE Step(g[i - 1], i)
             m == CHOOSE g : g = [i \in 0..N |-> Body(g, i)]
             E == {k \in 0..N : \E g : g = [i \in 0..k |-> Body(g, i)]}
  <1>0. N \in Nat /\ 0 \in 0..N /\ N \in 0..N
    BY SeqIsFunction
  <1>1. OnDuplicate(t, list, current, incoming) = m[N]
    BY DEF OnDuplicate
  <1>2. m = [i \in 0..N |-> Body(m, i)]
    <2> HIDE DEF Step, first
    <2>1. 0 \in E
      <3> DEFINE g == [i \in 0..0 |-> first]
      <3>1. g = [i \in 0..0 |-> Body(g, i)]
        OBVIOUS
      <3> QED BY <1>0, <3>1
    <2>2. ASSUME NEW k \in 0..(N - 1), k \in E PROVE k + 1 \in E
      <3>1. PICK g : g = [i \in 0..k |-> Body(g, i)]
        BY <2>2
      <3> DEFINE h == [i \in 0..(k + 1) |-> IF i = k + 1 THEN Step(g[k], k + 1) ELSE g[i]]
      <3>2. ASSUME NEW i \in 0..(k + 1) PROVE h[i] = Body(h, i)
        <4>1. CASE i = 0
          BY <3>1, <4>1, <1>0
        <4>2. CASE i \in 1..k
          <5>1. i \in 0..k /\ i - 1 \in 0..k /\ i - 1 # k + 1 /\ i # k + 1 /\ i # 0 /\ i - 1 \in 0..(k + 1)
            BY <4>2, <1>0
          <5>2. g[i] = Body(g, i)
            BY <3>1, <5>1
          <5>3. h[i] = g[i] /\ h[i - 1] = g[i - 1]
            BY <5>1
          <5> QED BY <5>1, <5>2, <5>3
        <4>3. CASE i = k + 1
          <5>1. i - 1 = k /\ k \in 0..(k + 1) /\ k # k + 1 /\ i # 0
            BY <4>3, <1>0
          <5>2. h[k] = g[k]
            BY <5>1
          <5> QED BY <4>3, <5>1, <5>2
        <4> QED BY <4>1, <4>2, <4>3, <1>0
      <3>3. h = [i \in 0..(k + 1) |-> Body(h, i)]
        <4>1. h = [i \in 0..(k + 1) |-> h[i]]
          OBVIOUS
        <4> HIDE DEF h, Body
        <4> QED BY <3>2, <4>1
      <3>4. k + 1 \in 0..N
        BY <1>0
      <3> HIDE DEF h, Body
      <3> QED BY <3>3, <3>4
    <2>3. N \in E
      <3> HIDE DEF E
      <3> QED BY <1>0, <2>1, <2>2, UpTo
    <2>4. \E g : g = [i \in 0..N |-> Body(g, i)]
      BY <2>3
    <2> HIDE DEF Body
    <2> QED BY <2>4
  <1> HIDE DEF m
  <1>3. m[0] = first
    BY <1>0, <1>2
  <1>4. ASSUME NEW k \in 0..(N - 1)
        PROVE  m[k + 1] = Step(m[k], k + 1)
    <2>1. k + 1 \in 0..N /\ k + 1 # 0 /\ (k + 1) - 1 = k
      BY <1>0
    <2> HIDE DEF Step
    <2> QED BY <1>2, <2>1
  <1> QED BY <1>1, <1>3, <1>4

\* One assignment of ON DUPLICATE KEY UPDATE.
LEMMA AssignedSettled ==
  ASSUME NEW t, ColumnsInv(t.columns), NEW a, a.kind \in {"literal", "column", "incoming"},
         a.kind = "literal" => a.val \in SqlValue,
         NEW s, DOMAIN s = {"ok", "row"}, Settled(t.columns, s.row),
         NEW incoming, Settled(t.columns, incoming)
  PROVE  LET r == Assigned(t, a, s, incoming) IN
         DOMAIN r = {"ok", "row"} /\ Settled(t.columns, r.row)
  <1> DEFINE pos == ColumnIndex(t, a.col)
             v == Operand(t, a, s.row, incoming)
             w == Fitted(v, t.columns[pos].type)
             r == Assigned(t, a, s, incoming)
             refused == [s EXCEPT !.ok = FALSE]
             stored == [s EXCEPT !.row[pos] = w]
  <1>1. \/ r = refused
        \/ /\ r = stored /\ HasColumn(t, a.col)
           /\ ~(a.kind = "column" /\ ~HasColumn(t, a.src))
    BY DEF Assigned, Fitted
  <1>2. DOMAIN refused = {"ok", "row"} /\ refused.row = s.row
    OBVIOUS
  <1>3. ASSUME HasColumn(t, a.col), ~(a.kind = "column" /\ ~HasColumn(t, a.src))
        PROVE  DOMAIN stored = {"ok", "row"} /\ Settled(t.columns, stored.row)
    <2>1. pos \in DOMAIN t.columns
      BY <1>3, ColumnFacts
    <2>2. v \in SqlValue
      <3>1. CASE a.kind = "literal"
        BY <3>1 DEF Operand
      <3>2. CASE a.kind = "column"
        <4>1. ColumnIndex(t, a.src) \in DOMAIN t.columns
          BY <1>3, <3>2, ColumnFacts
        <4>2. v = s.row[ColumnIndex(t, a.src)]
          BY <3>2 DEF Operand
        <4> QED BY <4>1, <4>2 DEF Settled
      <3>3. CASE a.kind = "incoming"
        <4>1. v = IF HasColumn(t, a.src) THEN incoming[ColumnIndex(t, a.src)] ELSE Null
          BY <3>3 DEF Operand
        <4>2. HasColumn(t, a.src) => ColumnIndex(t, a.src) \in DOMAIN t.columns
          BY ColumnFacts
        <4> QED BY <4>1, <4>2 DEF Settled, SqlValue
      <3> QED BY <3>1, <3>2, <3>3
    <2>3. t.columns[pos].type \in DataType
      BY <2>1 DEF ColumnsInv, IsColumnDef
    <2> HIDE DEF v, pos
    <2>4. w \in SqlValue /\ (IsCompatibleWith(w, t.columns[pos].type) => Typed(t.columns[pos], w))
      BY <2>2, <2>3, FittedFacts
    <2> HIDE DEF w
    <2>5. DOMAIN stored = {"ok", "row"} /\ stored.row = [s.row EXCEPT ![pos] = w]
      OBVIOUS
    <2>6. DOMAIN s.row = DOMAIN t.columns /\ IsSeq(s.row) /\ Len(s.row) = Len(t.columns)
      BY SeqIsFunction DEF Settled, ColumnsInv
    <2> DEFINE row == [s.row EXCEPT ![pos] = w]
    <2>7. row = [i \in DOMAIN s.row |-> row[i]] /\ \A i \in DOMAIN s.row : row[i] = IF i = pos THEN w ELSE s.row[i]
      OBVIOUS
    <2> HIDE DEF row
    <2>8. IsSeq(row) /\ Len(row) = Len(t.columns)
      BY <2>6, <2>7, MappedIsSeq
    <2>9. Settled(t.columns, row)
      BY <2>4, <2>6, <2>7, <2>8 DEF Settled
    <2> HIDE DEF stored
    <2> QED BY <2>5, <2>9 DEF row
  <1> HIDE DEF r, refused, stored
  <1>4. DOMAIN r = {"ok", "row"} /\ Settled(t.columns, r.row)
    BY <1>1, <1>2, <1>3
  <1> QED BY <1>4 DEF r

\* All of them.
LEMMA OnDuplicateSettled ==
  ASSUME NEW t, ColumnsInv(t.columns), NEW list, IsAssignmentList(list),
         NEW current, Settled(t.columns, current), NEW incoming, Settled(t.columns, incoming)
  PROVE  Settled(t.columns, OnDuplicate(t, list, current, incoming).row)
  <1> DEFINE N == Len(list)
  <1>00. IsSeq(list)
    BY DEF IsAssignmentList, IsSeq
  <1>0. N \in Nat /\ 0 \in 0..N /\ N \in 0..N /\ DOMAIN list = 1..N
    BY <1>00, SeqIsFunction
  <1>1. PICK m : /\ OnDuplicate(t, list, current, incoming) = m[N]
                 /\ m[0] = [ok |-> TRUE, row |-> current]
                 /\ \A k \in 0..(N - 1) : m[k + 1] = Assigned(t, list[k + 1], m[k], incoming)
    <2> HIDE DEF N
    <2> QED BY <1>00, OnDuplicateSteps DEF N
  <1> DEFINE S == {k \in 0..N : DOMAIN m[k] = {"ok", "row"} /\ Settled(t.columns, m[k].row)}
  <1>2. 0 \in S
    BY <1>0, <1>1
  <1>3. ASSUME NEW k \in 0..(N - 1), k \in S PROVE k + 1 \in S
    <2>1. k + 1 \in 0..N /\ k + 1 \in DOMAIN list
      BY <1>0
    <2>2. m[k + 1] = Assigned(t, list[k + 1], m[k], incoming)
      BY <1>1
    <2>3. /\ list[k + 1].kind \in {"literal", "column", "incoming"}
          /\ list[k + 1].kind = "literal" => list[k + 1].val \in SqlValue
      BY <2>1 DEF IsAssignmentList
    <2>4. DOMAIN m[k + 1] = {"ok", "row"} /\ Settled(t.columns, m[k + 1].row)
      <3> DEFINE a == list[k + 1]
                 s == m[k]
                 r == Assigned(t, a, s, incoming)
      <3>1. DOMAIN s = {"ok", "row"}
        BY <1>3
      <3>2. Settled(t.columns, s.row)
        BY <1>3
      <3>3. a.kind \in {"literal", "column", "incoming"}
        BY <2>3
      <3>4. a.kind = "literal" => a.val \in SqlValue
        BY <2>3
      <3> HIDE DEF a, s
      <3>5. DOMAIN r = {"ok", "row"} /\ Settled(t.columns, r.row)
        BY <3>1, <3>2, <3>3, <3>4, AssignedSettled
      <3> QED BY <2>2, <3>5 DEF a, s
    <2> QED BY <2>1, <2>4
  <1>4. N \in S
    <2> HIDE DEF S
    <2> QED BY <1>0, <1>2, <1>3, UpTo
  <1> QED BY <1>1, <1>4

\* Other rows for the same columns.
LEMMA RowsReplaced ==
  ASSUME NEW t, DataInv(t), NEW u, u.columns = t.columns, u.constraints = t.constraints,
         u.indexes = t.indexes, \A p \in DOMAIN u.rows : RowInv(t.columns, u.rows[p])
  PROVE  DataInv(u)
  <1>1. RowsInv(u.columns, u.rows)
    BY DEF RowsInv
  <1> QED BY <1>1 DEF DataInv, Data, Refreshed

\* insert_row_indexed.
LEMMA InsertRowData ==
  ASSUME NEW t, DOMAIN t = Fields, IsSeq(t.rows), DataInv(t), NEW row, RowInv(t.columns, row)
  PROVE  DataInv(InsertRowIndexed(t, row)) /\ InsertRowIndexed(t, row).columns = t.columns
  <1> DEFINE u == InsertRowIndexed(t, row)
  <1>1. /\ u.columns = t.columns /\ u.constraints = t.constraints /\ u.indexes = t.indexes
        /\ u.rows = Append(t.rows, row)
    BY DEF Fields, InsertRowIndexed
  <1> HIDE DEF u
  <1>2. /\ Len(t.rows) \in Nat /\ DOMAIN t.rows = 1..Len(t.rows) /\ DOMAIN u.rows = 1..(Len(t.rows) + 1)
        /\ \A i \in 1..Len(t.rows) : u.rows[i] = t.rows[i]
        /\ u.rows[Len(t.rows) + 1] = row
    BY <1>1, AppendFacts
  <1>3. \A i \in 1..(Len(t.rows) + 1) : i \in 1..Len(t.rows) \/ i = Len(t.rows) + 1
    BY <1>2
  <1>4. \A p \in DOMAIN u.rows : RowInv(t.columns, u.rows[p])
    BY <1>2, <1>3 DEF DataInv, Data, RowsInv
  <1>5. DataInv(u)
    BY <1>1, <1>4, RowsReplaced
  <1> QED BY <1>1, <1>5 DEF u

\* replace_row_indexed.
LEMMA ReplaceRowData ==
  ASSUME NEW t, DOMAIN t = Fields, DataInv(t), NEW p \in DOMAIN t.rows, NEW row, RowInv(t.columns, row)
  PROVE  DataInv(ReplaceRowIndexed(t, p, row)) /\ ReplaceRowIndexed(t, p, row).columns = t.columns
  <1> DEFINE u == ReplaceRowIndexed(t, p, row)
  <1>1. /\ u.columns = t.columns /\ u.constraints = t.constraints /\ u.indexes = t.indexes
        /\ u.rows = [t.rows EXCEPT ![p] = row]
    BY DEF Fields, ReplaceRowIndexed
  <1> HIDE DEF u
  <1>2. \A q \in DOMAIN u.rows : RowInv(t.columns, u.rows[q])
    BY <1>1 DEF DataInv, Data, RowsInv
  <1>3. DataInv(u)
    BY <1>1, <1>2, RowsReplaced
  <1> QED BY <1>1, <1>3 DEF u

\* One row of an INSERT.
LEMMA InsertOneData ==
  ASSUME NEW n, NEW s, DOMAIN s = {"ok", "table"}, TableInv(n, s.table), DataInv(s.table),
         NEW row, Settled(s.table.columns, row), NEW onDuplicate, IsAssignmentList(onDuplicate)
  PROVE  LET r == InsertOne(s, row, onDuplicate) IN
         DataInv(r.table) /\ r.table.columns = s.table.columns
  <1> DEFINE t == s.table
             C == UniqueConflicts(t, row)
             p == CHOOSE q \in C : TRUE
             v == OnDuplicate(t, onDuplicate, t.rows[p], row)
             r == InsertOne(s, row, onDuplicate)
             a == InsertRowIndexed(t, row)
             b == ReplaceRowIndexed(t, p, v.row)
  <1>1. \/ r = Refuse(s) \/ r = s
        \/ ValidateRow(t, row) /\ r = [s EXCEPT !.table = a]
        \/ C # {} /\ ValidateRow(t, v.row) /\ r = [s EXCEPT !.table = b]
    BY DEF InsertOne
  <1>2. C \subseteq DOMAIN t.rows
    <2>1. C \subseteq DOMAIN t.ids
      BY DEF UniqueConflicts
    <2> QED BY <2>1, IdsDiffer DEF TableInv
  <1>3. C # {} => p \in DOMAIN t.rows
    BY <1>2
  <1>4. DOMAIN t = Fields /\ IsSeq(t.rows) /\ ColumnsInv(t.columns)
    BY DEF TableInv, RawInv, Shape, DataInv, Data
  <1>5. ValidateRow(t, row) => DataInv(a) /\ a.columns = t.columns
    BY <1>4, SettledFacts, InsertRowData
  <1> HIDE DEF C, p
  <1>6. ASSUME C # {}, ValidateRow(t, v.row) PROVE DataInv(b) /\ b.columns = t.columns
    <2>1. RowInv(t.columns, t.rows[p])
      BY <1>3, <1>6 DEF DataInv, Data, RowsInv
    <2>2. Settled(t.columns, t.rows[p])
      BY <1>4, <2>1, SettledFacts
    <2>3. Settled(t.columns, v.row)
      BY <1>4, <2>2, OnDuplicateSettled
    <2> HIDE DEF v
    <2>4. RowInv(t.columns, v.row)
      BY <1>4, <1>6, <2>3, SettledFacts
    <2> QED BY <1>3, <1>4, <1>6, <2>4, ReplaceRowData
  <1> HIDE DEF v, a, b, r
  <1>7. CASE r = Refuse(s) \/ r = s
    <2>1. r.table = t
      BY <1>7 DEF Refuse
    <2> QED BY <2>1 DEF r
  <1>8. CASE ValidateRow(t, row) /\ r = [s EXCEPT !.table = a]
    <2>1. r.table = a
      BY <1>8
    <2> QED BY <1>5, <1>8, <2>1 DEF r
  <1>9. CASE C # {} /\ ValidateRow(t, v.row) /\ r = [s EXCEPT !.table = b]
    <2>1. r.table = b
      BY <1>9
    <2> QED BY <1>6, <1>9, <2>1 DEF r
  <1> QED BY <1>1, <1>7, <1>8, <1>9

\* execute_insert.
LEMMA InsertKeepsData ==
  ASSUME NEW cat, CatInv(cat), CatData(cat), NEW n \in DOMAIN cat, NEW cols, IsSeq(cols),
         NEW values, IsSeq(values), \A i \in DOMAIN values : IsValues(values[i]),
         NEW onDuplicate, IsAssignmentList(onDuplicate), cat[n].next + Len(values) <= MaxRowId
  PROVE  CatData(ExecuteInsert(cat, n, cols, values, onDuplicate).tables)
  <1> DEFINE t == cat[n]
             rows == [i \in DOMAIN values |-> OrderedRow(t, cols, values[i])]
             m == InsertStates(t, rows, onDuplicate)
             N == Len(rows)
             u == Store(cat, n, m[N].table)
             r == ExecuteInsert(cat, n, cols, values, onDuplicate)
             S == {k \in 0..N : DataInv(m[k].table) /\ m[k].table.columns = t.columns}
  <1>1. \/ r.tables = cat
        \/ r.tables = u /\ \A i \in DOMAIN values : RowFits(t, cols, values[i])
    BY DEF ExecuteInsert, Result
  <1>2. DataInv(t) /\ n \in TableNames /\ TableInv(n, t)
    BY DEF CatData, CatInv
  <1>3. IsSeq(rows) /\ Len(rows) = Len(values) /\ DOMAIN rows = DOMAIN values
        /\ \A i \in DOMAIN rows : rows[i] = OrderedRow(t, cols, values[i])
    <2>1. rows = [i \in DOMAIN values |-> rows[i]] /\ DOMAIN rows = DOMAIN values
          /\ \A i \in DOMAIN rows : rows[i] = OrderedRow(t, cols, values[i])
      OBVIOUS
    <2> HIDE DEF rows
    <2> QED BY <2>1, MappedIsSeq
  <1> HIDE DEF rows
  <1>4. N \in Nat /\ 0 \in 0..N /\ N \in 0..N /\ DOMAIN rows = 1..N
    BY <1>3, SeqIsFunction
  <1>5. ASSUME \A i \in DOMAIN values : RowFits(t, cols, values[i])
        PROVE  DataInv(m[N].table)
    <2>1. /\ m[0] = [ok |-> TRUE, table |-> t]
          /\ \A k \in 0..(N - 1) :
               m[k + 1] = IF m[k].ok THEN InsertOne(m[k], rows[k + 1], onDuplicate) ELSE m[k]
      BY <1>3, InsertSteps
    <2>2. \A k \in 0..N : DOMAIN m[k] = {"ok", "table"} /\ TableInv(n, m[k].table)
      BY <1>2, <1>3, InsertStatesKeep
    <2> HIDE DEF m
    <2>3. 0 \in S
      BY <1>2, <1>4, <2>1
    <2>4. ASSUME NEW k \in 0..(N - 1), k \in S PROVE k + 1 \in S
      <3> DEFINE s == m[k]
                 row == rows[k + 1]
                 x == InsertOne(s, row, onDuplicate)
      <3>1. k + 1 \in 0..N /\ k + 1 \in DOMAIN rows /\ k \in 0..N
        BY <1>4
      <3>2. DOMAIN s = {"ok", "table"} /\ TableInv(n, s.table)
        BY <2>2, <3>1
      <3>3. DataInv(s.table) /\ s.table.columns = t.columns
        BY <2>4
      <3>4. Settled(t.columns, row)
        <4>1. row = OrderedRow(t, cols, values[k + 1]) /\ IsValues(values[k + 1])
              /\ RowFits(t, cols, values[k + 1])
          BY <1>3, <1>5, <3>1
        <4>2. ColumnsInv(t.columns)
          BY <1>2 DEF DataInv, Data
        <4> HIDE DEF t, row
        <4> QED BY <4>1, <4>2, OrderedSettled
      <3> HIDE DEF s, row
      <3>5. DataInv(x.table) /\ x.table.columns = t.columns
        BY <3>2, <3>3, <3>4, InsertOneData
      <3>6. m[k + 1] = IF s.ok THEN x ELSE s
        BY <2>1 DEF s, row
      <3> HIDE DEF x
      <3>7. DataInv(m[k + 1].table) /\ m[k + 1].table.columns = t.columns
        BY <3>3, <3>5, <3>6
      <3> QED BY <3>1, <3>7
    <2>5. N \in S
      <3> HIDE DEF S
      <3> QED BY <1>4, <2>3, <2>4, UpTo
    <2> QED BY <2>5
  <1> HIDE DEF m, r
  <1>6. ASSUME \A i \in DOMAIN values : RowFits(t, cols, values[i]) PROVE CatData(u)
    BY <1>2, <1>5, <1>6, StoreData
  <1> HIDE DEF u
  <1> QED BY <1>1, <1>6 DEF r

\* The rows of a query are values of the table they come from.
LEMMA QueryValues ==
  ASSUME NEW cat, CatInv(cat), CatData(cat), NEW q, IsSeq(q.columns), NEW ids, QueryOk(cat, q, ids)
  PROVE  LET rows == QueryRows(cat, q, ids) IN
         IsSeq(rows) /\ \A i \in DOMAIN rows : IsValues(rows[i])
  <1> DEFINE t == cat[q.from]
             K == Selected(t, ids, q.selection)
             hits == At(t.rows, K)
             rows == QueryRows(cat, q, ids)
  <1>1. q.from \in DOMAIN cat /\ HasColumns(t, q.columns)
    BY DEF QueryOk
  <1>2. IsSeq(t.rows) /\ DataInv(t)
    BY <1>1 DEF CatInv, TableInv, RawInv, Shape, CatData
  <1>3. IsSeq(hits) /\ \A i \in DOMAIN hits : \E p \in DOMAIN t.rows : hits[i] = t.rows[p]
    <2>1. K \subseteq DOMAIN t.rows
      BY DEF Selected
    <2> HIDE DEF K
    <2>2. IsSeq(hits) /\ \A i \in DOMAIN hits : \E p \in K : hits[i] = t.rows[p]
      BY <1>2, <2>1, Positions
    <2> QED BY <2>1, <2>2
  <1>4. rows = [i \in DOMAIN hits |-> IndexKey(t, hits[i], q.columns)]
    BY DEF QueryRows
  <1> HIDE DEF hits, rows
  <1>5. IsSeq(rows)
    <2>1. rows = [i \in DOMAIN hits |-> rows[i]]
      BY <1>4
    <2> QED BY <1>3, <2>1, MappedIsSeq
  <1>6. ASSUME NEW i \in DOMAIN rows PROVE IsValues(rows[i])
    <2>1. PICK p \in DOMAIN t.rows : hits[i] = t.rows[p]
      BY <1>3, <1>4
    <2> DEFINE key == rows[i]
    <2>2. key = [j \in DOMAIN q.columns |-> t.rows[p][ColumnIndex(t, q.columns[j])]]
      BY <1>4, <2>1 DEF IndexKey
    <2> HIDE DEF key
    <2>3. IsSeq(key)
      <3>1. key = [j \in DOMAIN q.columns |-> key[j]]
        BY <2>2
      <3> QED BY <3>1, MappedIsSeq
    <2>4. ASSUME NEW j \in DOMAIN key PROVE key[j] \in SqlValue
      <3>1. HasColumn(t, q.columns[j]) /\ key[j] = t.rows[p][ColumnIndex(t, q.columns[j])]
        BY <1>1, <2>2 DEF HasColumns
      <3>2. ColumnIndex(t, q.columns[j]) \in DOMAIN t.columns
        BY <3>1, ColumnFacts
      <3>3. RowInv(t.columns, t.rows[p])
        BY <1>2 DEF DataInv, Data, RowsInv
      <3> QED BY <3>1, <3>2, <3>3 DEF RowInv, Typed
    <2>5. IsValues(key)
      BY <2>3, <2>4 DEF IsValues
    <2> QED BY <2>5 DEF key
  <1> QED BY <1>5, <1>6 DEF rows

---------------------------------------------------------------------------
(* UPDATE and DELETE *)

\* The last of the assignments to a column is one of them.
LEMMA LastAssignmentFacts ==
  ASSUME NEW t, NEW list, IsSeq(list), NEW i, Assigns(t, list, i) # {}
  PROVE  \E k \in DOMAIN list : ColumnIndex(t, list[k].col) = i /\ LastAssignment(t, list, i) = list[k]
  <1> DEFINE A == Assigns(t, list, i)
  <1>1. Len(list) \in Nat /\ DOMAIN list = 1..Len(list)
    BY SeqIsFunction
  <1>2. A \subseteq 0..Len(list) /\ \A k \in A : k \in DOMAIN list /\ ColumnIndex(t, list[k].col) = i
    BY <1>1 DEF Assigns
  <1>3. LastAssignment(t, list, i) = list[CHOOSE k \in A : \A j \in A : j <= k]
    BY DEF LastAssignment
  <1> HIDE DEF A
  <1>4. \E k \in A : \A j \in A : j <= k
    BY <1>1, <1>2, GreatestNumber DEF A
  <1>5. (CHOOSE k \in A : \A j \in A : j <= k) \in A
    BY <1>4
  <1> QED BY <1>2, <1>3, <1>5

\* An updated row: the assignments were checked.
LEMMA UpdatedRowData ==
  ASSUME NEW t, ColumnsInv(t.columns), NEW list, IsAssignmentList(list), NEW row, RowInv(t.columns, row),
         \A k \in DOMAIN list : ~AssignmentFails(t, list[k], row)
  PROVE  RowInv(t.columns, UpdatedRow(t, list, row))
  <1> DEFINE r == UpdatedRow(t, list, row)
             new(i) == CoerceTo(Operand(t, LastAssignment(t, list, i), row, row), t.columns[i].type)
  <1>1. r = [i \in DOMAIN row |-> IF Assigns(t, list, i) = {} THEN row[i] ELSE new(i)]
    BY DEF UpdatedRow
  <1>2. IsSeq(list)
    BY DEF IsAssignmentList, IsSeq
  <1>3. DOMAIN row = DOMAIN t.columns /\ IsSeq(row) /\ Len(row) = Len(t.columns)
    BY SeqIsFunction DEF RowInv, ColumnsInv
  <1>4. ASSUME NEW i \in DOMAIN t.columns, Assigns(t, list, i) # {} PROVE Typed(t.columns[i], new(i))
    <2>1. PICK k \in DOMAIN list : LastAssignment(t, list, i) = list[k]
      BY <1>2, <1>4, LastAssignmentFacts
    <2> DEFINE a == list[k]
               v == Operand(t, a, row, row)
    <2>2. /\ a.kind \in {"literal", "column", "incoming"} /\ (a.kind = "literal" => a.val \in SqlValue)
          /\ ~AssignmentFails(t, a, row)
      BY DEF IsAssignmentList
    <2> HIDE DEF a
    <2>3. v \in SqlValue
      <3>1. CASE a.kind = "literal"
        BY <2>2, <3>1 DEF Operand
      <3>2. CASE a.kind = "column"
        <4>1. ColumnIndex(t, a.src) \in DOMAIN t.columns
          BY <2>2, <3>2, ColumnFacts DEF AssignmentFails
        <4>2. v = row[ColumnIndex(t, a.src)]
          BY <3>2 DEF Operand
        <4> QED BY <4>1, <4>2 DEF RowInv, Typed
      <3>3. CASE a.kind = "incoming"
        <4>1. v = IF HasColumn(t, a.src) THEN row[ColumnIndex(t, a.src)] ELSE Null
          BY <3>3 DEF Operand
        <4>2. HasColumn(t, a.src) => ColumnIndex(t, a.src) \in DOMAIN t.columns
          BY ColumnFacts
        <4> QED BY <4>1, <4>2 DEF RowInv, Typed, SqlValue
      <3> QED BY <2>2, <3>1, <3>2, <3>3
    <2>4. t.columns[i].type \in DataType
      BY DEF ColumnsInv, IsColumnDef
    <2>5. new(i) = CoerceTo(v, t.columns[i].type)
      BY <2>1 DEF a
    <2> HIDE DEF v, new
    <2> QED BY <2>3, <2>4, <2>5, CoerceFacts DEF Typed
  <1> HIDE DEF r, new
  <1>5. IsSeq(r) /\ Len(r) = Len(t.columns)
    <2>1. r = [i \in DOMAIN row |-> r[i]]
      BY <1>1
    <2> QED BY <1>3, <2>1, MappedIsSeq
  <1>6. ASSUME NEW i \in DOMAIN t.columns PROVE Typed(t.columns[i], r[i])
    <2>1. r[i] = IF Assigns(t, list, i) = {} THEN row[i] ELSE new(i)
      BY <1>1, <1>3
    <2>2. Typed(t.columns[i], row[i])
      BY DEF RowInv
    <2> QED BY <1>4, <2>1, <2>2
  <1>7. RowInv(t.columns, r)
    BY <1>5, <1>6 DEF RowInv
  <1> QED BY <1>7 DEF r

\* execute_update.
LEMMA UpdateKeepsData ==
  ASSUME NEW cat, CatInv(cat), CatData(cat), NEW n \in DOMAIN cat, NEW list, IsAssignmentList(list),
         NEW sel, NEW ids
  PROVE  CatData(ExecuteUpdate(cat, n, list, sel, ids).tables)
  <1> DEFINE t == cat[n]
             hits == Selected(t, ids, sel)
             ok == \A p \in hits : \A k \in DOMAIN list : ~AssignmentFails(t, list[k], t.rows[p])
             rows == [p \in DOMAIN t.rows |->
                        IF p \in hits THEN UpdatedRow(t, list, t.rows[p]) ELSE t.rows[p]]
             u == [t EXCEPT !.rows = rows]
             c == Store(cat, n, RebuildIndex(u))
             res == ExecuteUpdate(cat, n, list, sel, ids)
  <1>1. res.tables = cat \/ (res.tables = c /\ ok)
    BY DEF ExecuteUpdate, Result
  <1>2. DOMAIN t = Fields /\ DataInv(t) /\ n \in TableNames
    BY DEF CatInv, TableInv, RawInv, Shape, CatData
  <1>3. ASSUME ok, NEW p \in DOMAIN t.rows PROVE RowInv(t.columns, rows[p])
    <2>1. RowInv(t.columns, t.rows[p]) /\ ColumnsInv(t.columns)
      BY <1>2 DEF DataInv, Data, RowsInv
    <2>2. p \in hits => RowInv(t.columns, UpdatedRow(t, list, t.rows[p]))
      BY <1>3, <2>1, UpdatedRowData
    <2> QED BY <2>1, <2>2
  <1>4. DOMAIN rows = DOMAIN t.rows
    OBVIOUS
  <1> HIDE DEF rows, ok
  <1>5. /\ DOMAIN u = Fields /\ u.columns = t.columns /\ u.constraints = t.constraints
        /\ u.indexes = t.indexes /\ u.rows = rows
    BY <1>2 DEF Fields
  <1> HIDE DEF u
  <1>6. ASSUME ok PROVE CatData(c)
    <2>1. DataInv(u)
      BY <1>2, <1>3, <1>4, <1>5, <1>6, RowsReplaced
    <2> QED BY <1>2, <1>5, <2>1, RebuildData, StoreData
  <1> HIDE DEF c, res
  <1> QED BY <1>1, <1>6 DEF res

\* execute_delete.
LEMMA DeleteKeepsData ==
  ASSUME NEW cat, CatInv(cat), CatData(cat), NEW n \in DOMAIN cat, NEW sel, NEW ids
  PROVE  CatData(ExecuteDelete(cat, n, sel, ids).tables)
  <1> DEFINE t == cat[n]
             K == DOMAIN t.rows \ Selected(t, ids, sel)
             u == [t EXCEPT !.rows = At(@, K), !.ids = At(@, K)]
             c == Store(cat, n, RebuildIndex(u))
             res == ExecuteDelete(cat, n, sel, ids)
  <1>1. res.tables = cat \/ res.tables = c
    BY DEF ExecuteDelete, Result
  <1>2. DOMAIN t = Fields /\ IsSeq(t.rows) /\ DataInv(t) /\ n \in TableNames
    BY DEF CatInv, TableInv, RawInv, Shape, CatData
  <1>3. K \subseteq DOMAIN t.rows
    OBVIOUS
  <1> HIDE DEF K
  <1>4. /\ DOMAIN u = Fields /\ u.columns = t.columns /\ u.constraints = t.constraints
        /\ u.indexes = t.indexes /\ u.rows = At(t.rows, K)
    BY <1>2 DEF Fields
  <1> HIDE DEF u
  <1>5. \A i \in DOMAIN At(t.rows, K) : \E p \in K : At(t.rows, K)[i] = t.rows[p]
    BY <1>2, <1>3, Positions
  <1>6. \A i \in DOMAIN u.rows : RowInv(t.columns, u.rows[i])
    BY <1>2, <1>3, <1>4, <1>5 DEF DataInv, Data, RowsInv
  <1>7. DataInv(u)
    BY <1>2, <1>4, <1>6, RowsReplaced
  <1>8. CatData(c)
    BY <1>2, <1>4, <1>7, RebuildData, StoreData
  <1> HIDE DEF c, res
  <1> QED BY <1>1, <1>8 DEF res

---------------------------------------------------------------------------
(* Every step *)

\* execute_catalog publishes the working copy or keeps the catalog.
LEMMA ExecuteKeepsData ==
  ASSUME CatData(tables), NEW r, CatData(r.tables), Execute(r)
  PROVE  CatData(tables')
  BY DEF Execute

\* Every action keeps the invariant.
LEMMA NextData ==
  ASSUME CatInv(tables), CatData(tables), [Next]_vars
  PROVE  CatData(tables')
  <1>1. ASSUME NEW n \in TableNames, CreateTable(n) PROVE CatData(tables')
    <2>1. PICK def \in TableDefs[n] : Execute(ExecuteCreateTable(tables, n, def))
      BY <1>1 DEF CreateTable, ExecuteData
    <2> QED BY <2>1, CreateTableKeepsData, ExecuteKeepsData
  <1>2. ASSUME NEW n \in TableNames, DropTable(n) PROVE CatData(tables')
    <2>1. Execute(ExecuteDropTable(tables, n))
      BY <1>2 DEF DropTable, ExecuteSchema
    <2> QED BY <2>1, DropTableKeepsData, ExecuteKeepsData
  <1>3. ASSUME NEW n \in TableNames, CreateIndex(n) PROVE CatData(tables')
    <2>1. PICK def \in IndexDefs : Execute(ExecuteCreateIndex(tables, n, def))
      BY <1>3 DEF CreateIndex, ExecuteSchema
    <2>2. n \in DOMAIN tables
      BY <1>3 DEF CreateIndex
    <2> QED BY <2>1, <2>2, CreateIndexKeepsData, ExecuteKeepsData
  <1>4. ASSUME NEW n \in TableNames, DropIndex(n) PROVE CatData(tables')
    <2>1. PICK def \in IndexDefs : Execute(ExecuteDropIndex(tables, n, def.name))
      BY <1>4 DEF DropIndex, ExecuteSchema
    <2>2. n \in DOMAIN tables
      BY <1>4 DEF DropIndex
    <2> QED BY <2>1, <2>2, DropIndexKeepsData, ExecuteKeepsData
  <1>5. ASSUME NEW n \in TableNames, AlterTable(n) PROVE CatData(tables')
    <2>1. PICK ops \in AlterLists : Execute(ExecuteAlterTable(tables, n, ops))
      BY <1>5 DEF AlterTable, ExecuteSchema
    <2>2. n \in DOMAIN tables
      BY <1>5 DEF AlterTable
    <2>3. IsSeq(ops) /\ \A i \in DOMAIN ops : IsAlterOperation(ops[i])
      BY CatalogAssumption DEF IsSeq
    <2> QED BY <2>1, <2>2, <2>3, AlterKeepsData, ExecuteKeepsData
  <1>6. ASSUME NEW n \in TableNames, InsertValues(n) PROVE CatData(tables')
    <2>1. PICK ins \in Inserts.values :
            /\ Room(n, Len(ins.rows))
            /\ Execute(ExecuteInsert(tables, n, ins.columns, ins.rows, ins.onDuplicate))
      BY <1>6 DEF InsertValues, ExecuteData
    <2>2. n \in DOMAIN tables
      BY <1>6 DEF InsertValues
    <2>3. /\ ins.columns \in Seq(Range(ins.columns)) /\ ins.rows \in Seq(Seq(SqlValue))
          /\ IsAssignmentList(ins.onDuplicate)
      BY CatalogAssumption
    <2>4. IsSeq(ins.columns) /\ IsSeq(ins.rows)
      BY <2>3 DEF IsSeq
    <2>5. ASSUME NEW i \in DOMAIN ins.rows PROVE IsValues(ins.rows[i])
      <3>1. ins.rows[i] \in Seq(SqlValue)
        BY <2>3
      <3>2. IsSeq(ins.rows[i])
        BY <3>1 DEF IsSeq
      <3> QED BY <3>1, <3>2 DEF IsValues
    <2>6. tables[n].next + Len(ins.rows) <= MaxRowId
      BY <2>1 DEF Room
    <2>7. CatData(ExecuteInsert(tables, n, ins.columns, ins.rows, ins.onDuplicate).tables)
      BY <2>2, <2>3, <2>4, <2>5, <2>6, InsertKeepsData
    <2> QED BY <2>1, <2>7, ExecuteKeepsData
  <1>7. ASSUME NEW n \in TableNames, InsertSelect(n) PROVE CatData(tables')
    <2>1. PICK q \in Inserts.queries : \E ids :
            /\ QueryOk(tables, q, ids)
            /\ Room(n, Len(QueryRows(tables, q, ids)))
            /\ Execute(ExecuteInsert(tables, n, <<>>, QueryRows(tables, q, ids), <<>>))
      BY <1>7 DEF InsertSelect, ExecuteData
    <2>2. PICK ids :
            /\ QueryOk(tables, q, ids)
            /\ Room(n, Len(QueryRows(tables, q, ids)))
            /\ Execute(ExecuteInsert(tables, n, <<>>, QueryRows(tables, q, ids), <<>>))
      BY <2>1
    <2>3. n \in DOMAIN tables
      BY <1>7 DEF InsertSelect
    <2> DEFINE rows == QueryRows(tables, q, ids)
    <2>4. IsSeq(q.columns)
      <3>1. q.columns \in Seq(Range(q.columns))
        BY CatalogAssumption
      <3> QED BY <3>1 DEF IsSeq
    <2>5. IsSeq(rows) /\ \A i \in DOMAIN rows : IsValues(rows[i])
      BY <2>2, <2>4, QueryValues
    <2>6. tables[n].next + Len(rows) <= MaxRowId
      BY <2>2 DEF Room
    <2> HIDE DEF rows
    <2>7. IsSeq(<<>>) /\ IsAssignmentList(<<>>)
      <3>1. <<>> \in Seq(Range(<<>>)) /\ DOMAIN <<>> = {}
        OBVIOUS
      <3> QED BY <3>1 DEF IsSeq, IsAssignmentList
    <2>8. CatData(ExecuteInsert(tables, n, <<>>, rows, <<>>).tables)
      BY <2>3, <2>5, <2>6, <2>7, InsertKeepsData
    <2> QED BY <2>2, <2>8, ExecuteKeepsData DEF rows
  <1>8. ASSUME NEW n \in TableNames, Update(n) PROVE CatData(tables')
    <2>1. PICK list \in Updates, sel \in Selections :
            \E ids \in CandidateRowIds(tables[n], sel) :
              Execute(ExecuteUpdate(tables, n, list, sel, ids))
      BY <1>8 DEF Update, ExecuteData
    <2>2. PICK ids : Execute(ExecuteUpdate(tables, n, list, sel, ids))
      BY <2>1
    <2>3. n \in DOMAIN tables
      BY <1>8 DEF Update
    <2>4. IsAssignmentList(list)
      BY CatalogAssumption
    <2> QED BY <2>2, <2>3, <2>4, UpdateKeepsData, ExecuteKeepsData
  <1>9. ASSUME NEW n \in TableNames, Delete(n) PROVE CatData(tables')
    <2>1. PICK sel \in Selections :
            \E ids \in CandidateRowIds(tables[n], sel) :
              Execute(ExecuteDelete(tables, n, sel, ids))
      BY <1>9 DEF Delete, ExecuteData
    <2>2. PICK ids : Execute(ExecuteDelete(tables, n, sel, ids))
      BY <2>1
    <2>3. n \in DOMAIN tables
      BY <1>9 DEF Delete
    <2> QED BY <2>2, <2>3, DeleteKeepsData, ExecuteKeepsData
  <1>10. ASSUME Reload PROVE CatData(tables')
    <2>1. tables' = [n \in DOMAIN tables |-> MigrateLegacyRows(n, tables[n])]
      BY <1>10 DEF Reload
    <2>2. ASSUME NEW n \in DOMAIN tables PROVE n \in TableNames /\ DataInv(MigrateLegacyRows(n, tables[n]))
      <3> DEFINE r == MigrateLegacyRows(n, tables[n])
      <3>1. TableInv(n, tables[n]) /\ n \in TableNames /\ DataInv(tables[n])
        BY DEF CatInv, CatData
      <3>2. /\ r.columns = tables[n].columns /\ r.constraints = tables[n].constraints
            /\ r.indexes = tables[n].indexes /\ r.rows = tables[n].rows
        BY <3>1, MigrateFacts
      <3> HIDE DEF r
      <3>3. DataInv(r)
        BY <3>1, <3>2 DEF DataInv, Data, Refreshed
      <3> QED BY <3>1, <3>3 DEF r
    <2> QED BY <2>1, <2>2 DEF CatData
  <1>11. CASE UNCHANGED vars
    BY <1>11 DEF vars, CatData
  <1> QED BY <1>1, <1>2, <1>3, <1>4, <1>5, <1>6, <1>7, <1>8, <1>9, <1>10, <1>11 DEF Next

\* Schemas are closed and rows typed in every table of every reachable catalog.
THEOREM DataInvariant == Spec => []CatData(tables)
  <1>1. Init => CatData(tables)
    BY DEF Init, CatData
  <1>2. CatInv(tables) /\ CatData(tables) /\ [Next]_vars => CatData(tables)'
    BY NextData
  <1> QED BY <1>1, <1>2, CatalogInvariant, PTL DEF Spec

\* The columns that constraints and indexes name exist, no two columns share a
\* name and the columns of a primary key are NOT NULL, after every statement and
\* every list of ALTER operations (refresh_constraint_metadata, execute_create_table).
THEOREM SchemaIsClosedHolds == Spec => []SchemaIsClosed
  <1>1. ASSUME CatData(tables) PROVE SchemaIsClosed
    <2> SUFFICES ASSUME NEW n \in DOMAIN tables
                 PROVE  LET t == tables[n]
                        IN /\ Cardinality(Names(t.columns)) = Len(t.columns)
                           /\ \A c \in Range(t.constraints) :
                                /\ HasColumns(t, c.columns)
                                /\ c.kind = "PrimaryKey" =>
                                     \A i \in DOMAIN c.columns :
                                       ~t.columns[ColumnIndex(t, c.columns[i])].nullable
                           /\ \A x \in Range(t.indexes) : HasColumns(t, x.columns)
      BY DEF SchemaIsClosed
    <2> DEFINE t == tables[n]
    <2>1. Data(t) /\ Refreshed(t)
      BY <1>1 DEF CatData, DataInv
    <2> HIDE DEF t
    <2>2. Cardinality(Names(t.columns)) = Len(t.columns)
      BY <2>1, NamesCounted DEF Data, ColumnsInv
    <2>3. ASSUME NEW c \in Range(t.constraints) PROVE HasColumns(t, c.columns)
      <3>1. PICK k \in DOMAIN t.constraints : t.constraints[k] = c
        BY DEF Range
      <3> QED BY <2>1, <3>1, ExistMeans DEF Data, ConstraintsInv, ConstraintInv
    <2>4. ASSUME NEW c \in Range(t.constraints), c.kind = "PrimaryKey", NEW i \in DOMAIN c.columns
          PROVE  ~t.columns[ColumnIndex(t, c.columns[i])].nullable
      <3>1. PICK k \in DOMAIN t.constraints : t.constraints[k] = c
        BY DEF Range
      <3>2. NotNull(t.columns, c)
        BY <2>1, <3>1 DEF Refreshed
      <3>3. HasColumn(t, c.columns[i])
        BY <2>3 DEF HasColumns
      <3>4. /\ ColumnIndex(t, c.columns[i]) \in DOMAIN t.columns
            /\ t.columns[ColumnIndex(t, c.columns[i])].name = c.columns[i]
        BY <3>3, ColumnFacts
      <3>5. c.columns[i] \in Range(c.columns)
        BY DEF Range
      <3> QED BY <2>4, <3>2, <3>4, <3>5 DEF NotNull
    <2>5. ASSUME NEW x \in Range(t.indexes) PROVE HasColumns(t, x.columns)
      <3>1. PICK k \in DOMAIN t.indexes : t.indexes[k] = x
        BY DEF Range
      <3> QED BY <2>1, <3>1, ExistMeans DEF Refreshed
    <2> QED BY <2>2, <2>3, <2>4, <2>5 DEF t
  <1> QED BY <1>1, DataInvariant, PTL

---------------------------------------------------------------------------
(* What validation leaves behind *)

Valid(cat) ==
  \A n \in DOMAIN cat : /\ \A p \in DOMAIN cat[n].rows : ValidateRow(cat[n], cat[n].rows[p])
                        /\ ValidateUniqueIndexes(cat[n])

\* Every published catalog was validated, and a restart keeps rows and entries.
LEMMA NextValid ==
  ASSUME CatInv(tables), Valid(tables), [Next]_vars
  PROVE  Valid(tables')
  <1>1. ASSUME NEW r, Execute(r) PROVE Valid(tables')
    <2>1. CASE r.ok /\ ValidateCatalog(r.tables)
      <3>1. tables' = r.tables
        BY <1>1, <2>1 DEF Execute
      <3> QED BY <2>1, <3>1 DEF ValidateCatalog, Valid
    <2>2. CASE ~(r.ok /\ ValidateCatalog(r.tables))
      <3>1. tables' = tables
        BY <1>1, <2>2 DEF Execute
      <3> QED BY <3>1
    <2> QED BY <2>1, <2>2
  <1>2. ASSUME NEW n \in TableNames, CreateTable(n) PROVE \E r : Execute(r)
    BY <1>2 DEF CreateTable, ExecuteData
  <1>3. ASSUME NEW n \in TableNames, DropTable(n) PROVE \E r : Execute(r)
    BY <1>3 DEF DropTable, ExecuteSchema
  <1>4. ASSUME NEW n \in TableNames, CreateIndex(n) PROVE \E r : Execute(r)
    BY <1>4 DEF CreateIndex, ExecuteSchema
  <1>5. ASSUME NEW n \in TableNames, DropIndex(n) PROVE \E r : Execute(r)
    BY <1>5 DEF DropIndex, ExecuteSchema
  <1>6. ASSUME NEW n \in TableNames, AlterTable(n) PROVE \E r : Execute(r)
    BY <1>6 DEF AlterTable, ExecuteSchema
  <1>7. ASSUME NEW n \in TableNames, InsertValues(n) PROVE \E r : Execute(r)
    BY <1>7 DEF InsertValues, ExecuteData
  <1>8. ASSUME NEW n \in TableNames, InsertSelect(n) PROVE \E r : Execute(r)
    BY <1>8 DEF InsertSelect, ExecuteData
  <1>9. ASSUME NEW n \in TableNames, Update(n) PROVE \E r : Execute(r)
    BY <1>9 DEF Update, ExecuteData
  <1>10. ASSUME NEW n \in TableNames, Delete(n) PROVE \E r : Execute(r)
    BY <1>10 DEF Delete, ExecuteData
  <1>11. ASSUME Reload PROVE Valid(tables')
    <2>1. tables' = [n \in DOMAIN tables |-> MigrateLegacyRows(n, tables[n])]
      BY <1>11 DEF Reload
    <2>2. ASSUME NEW n \in DOMAIN tables
          PROVE  /\ \A p \in DOMAIN tables'[n].rows : ValidateRow(tables'[n], tables'[n].rows[p])
                 /\ ValidateUniqueIndexes(tables'[n])
      <3> DEFINE t == tables[n]
                 r == tables'[n]
      <3>1. TableInv(n, t)
        BY DEF CatInv
      <3>2. r = MigrateLegacyRows(n, t)
        BY <2>1
      <3>3. /\ TableInv(n, r) /\ r.columns = t.columns /\ r.indexes = t.indexes /\ r.rows = t.rows
            /\ \A name \in DOMAIN r.runtime : r.runtime[name].entries = t.runtime[name].entries
        BY <3>1, <3>2, MigrateFacts
      <3>4. (\A p \in DOMAIN t.rows : ValidateRow(t, t.rows[p])) /\ ValidateUniqueIndexes(t)
        BY DEF Valid
      <3> HIDE DEF t, r
      <3>5. \A p \in DOMAIN r.rows : ValidateRow(r, r.rows[p])
        BY <3>3, <3>4 DEF ValidateRow
      <3>6. DOMAIN r.runtime = DOMAIN t.runtime
        BY <3>1, <3>3 DEF TableInv, IndexInv
      <3>7. ASSUME NEW name \in DOMAIN t.runtime PROVE r.runtime[name].unique = t.runtime[name].unique
        <4>1. LastNamed(r, name) = LastNamed(t, name)
          BY <3>3, SameIndexes
        <4>2. /\ Maintained(r, r.runtime[name], LastNamed(r, name))
              /\ Maintained(t, t.runtime[name], LastNamed(t, name))
          BY <3>1, <3>3, <3>6 DEF TableInv, IndexInv
        <4> QED BY <4>1, <4>2 DEF Maintained
      <3>8. ValidateUniqueIndexes(r)
        BY <3>3, <3>4, <3>6, <3>7 DEF ValidateUniqueIndexes
      <3> QED BY <3>5, <3>8 DEF r
    <2>3. DOMAIN tables' = DOMAIN tables
      BY <2>1
    <2> QED BY <2>2, <2>3 DEF Valid
  <1>12. CASE UNCHANGED vars
    BY <1>12 DEF vars
  <1> QED BY <1>1, <1>2, <1>3, <1>4, <1>5, <1>6, <1>7, <1>8, <1>9, <1>10, <1>11, <1>12 DEF Next

\* What was validated at publication holds in every reachable catalog.
THEOREM ValidInvariant == Spec => []Valid(tables)
  <1>1. Init => Valid(tables)
    BY DEF Init, Valid
  <1>2. CatInv(tables) /\ Valid(tables) /\ [Next]_vars => Valid(tables)'
    BY NextValid
  <1> QED BY <1>1, <1>2, CatalogInvariant, PTL DEF Spec

\* Rows and ids run side by side, every stored value has exactly the type of its
\* column and NOT NULL holds, for all definitions, statements and bounds.
THEOREM TypeOKHolds == Spec => []TypeOK
  <1>1. ASSUME CatInv(tables), CatData(tables), Valid(tables) PROVE TypeOK
    <2> SUFFICES ASSUME NEW n \in DOMAIN tables
                 PROVE  LET t == tables[n]
                        IN /\ n \in TableNames
                           /\ Len(t.ids) = Len(t.rows)
                           /\ DOMAIN t.runtime = Names(t.indexes)
                           /\ \A p \in DOMAIN t.rows :
                                /\ Len(t.rows[p]) = Len(t.columns)
                                /\ \A i \in DOMAIN t.columns :
                                     IF IsNull(t.rows[p][i]) THEN t.columns[i].nullable
                                     ELSE t.rows[p][i].type = t.columns[i].type
      BY DEF TypeOK
    <2> DEFINE t == tables[n]
    <2>1. n \in TableNames /\ DataInv(t) /\ TableInv(n, t) /\ \A p \in DOMAIN t.rows : ValidateRow(t, t.rows[p])
      BY <1>1 DEF CatInv, CatData, Valid
    <2> HIDE DEF t
    <2>2. Len(t.ids) = Len(t.rows) /\ DOMAIN t.runtime = Names(t.indexes)
      BY <2>1 DEF TableInv, RawInv, Shape, IndexInv
    <2>3. ASSUME NEW p \in DOMAIN t.rows, NEW i \in DOMAIN t.columns
          PROVE  /\ Len(t.rows[p]) = Len(t.columns)
                 /\ IF IsNull(t.rows[p][i]) THEN t.columns[i].nullable
                    ELSE t.rows[p][i].type = t.columns[i].type
      <3> DEFINE row == t.rows[p]
      <3>1. RowInv(t.columns, row) /\ ValidateRow(t, row) /\ IsSeq(t.columns)
        BY <2>1 DEF DataInv, Data, RowsInv, ColumnsInv
      <3> HIDE DEF row
      <3>2. DOMAIN row = DOMAIN t.columns /\ Len(row) = Len(t.columns)
        BY <3>1, SeqIsFunction DEF RowInv
      <3>3. CASE IsNull(row[i])
        BY <3>1, <3>2, <3>3 DEF ValidateRow, row
      <3>4. CASE ~IsNull(row[i])
        <4>1. Typed(t.columns[i], row[i])
          BY <3>1 DEF RowInv
        <4> QED BY <3>2, <3>4, <4>1, ValueFacts DEF Typed, row
      <3> QED BY <3>3, <3>4
    <2>4. ASSUME NEW p \in DOMAIN t.rows PROVE Len(t.rows[p]) = Len(t.columns)
      BY <2>1 DEF DataInv, Data, RowsInv, RowInv
    <2> QED BY <2>1, <2>2, <2>3, <2>4 DEF t
  <1> QED BY <1>1, CatalogInvariant, DataInvariant, ValidInvariant, PTL

---------------------------------------------------------------------------
(* Keys *)

\* The runtime index of a name is that of a definition of the table.
LEMMA LastNamedFacts ==
  ASSUME NEW t, IsSeq(t.indexes), NEW name \in Names(t.indexes)
  PROVE  \E l \in DOMAIN t.indexes : LastNamed(t, name) = t.indexes[l] /\ t.indexes[l].name = name
  <1> DEFINE A == {i \in DOMAIN t.indexes : t.indexes[i].name = name}
             l == CHOOSE i \in DOMAIN t.indexes :
                    /\ t.indexes[i].name = name
                    /\ \A j \in DOMAIN t.indexes : t.indexes[j].name = name => j <= i
  <1>1. Len(t.indexes) \in Nat /\ DOMAIN t.indexes = 1..Len(t.indexes)
    BY SeqIsFunction
  <1>2. A \subseteq 0..Len(t.indexes) /\ A # {}
    BY <1>1 DEF Names
  <1>3. \E i \in A : \A j \in A : j <= i
    <2> HIDE DEF A
    <2> QED BY <1>1, <1>2, GreatestNumber
  <1>4. \E i \in DOMAIN t.indexes :
          /\ t.indexes[i].name = name
          /\ \A j \in DOMAIN t.indexes : t.indexes[j].name = name => j <= i
    BY <1>3
  <1>5. l \in DOMAIN t.indexes /\ t.indexes[l].name = name
    BY <1>4
  <1>6. LastNamed(t, name) = t.indexes[l]
    BY DEF LastNamed
  <1> HIDE DEF l
  <1> QED BY <1>5, <1>6

\* Stored values of one column that compare as equal are the same value.
LEMMA EqualIsSame ==
  ASSUME NEW column, NEW a, NEW b, Typed(column, a), Typed(column, b), CompareSql(a, "=", b) = "True"
  PROVE  a = b /\ ~IsNull(a)
  <1>1. ~IsNull(a) /\ ~IsNull(b) /\ a \in SqlValue /\ b \in SqlValue
    BY DEF CompareSql, Typed
  <1>2. a # Null /\ b # Null
    BY <1>1, ValueFacts
  <1>3. a \in [type : DataType, v : Int] /\ b \in [type : DataType, v : Int] /\ a.type = b.type
    BY <1>1, <1>2, ValueFacts DEF Typed
  <1>4. a.v = b.v
    BY <1>1, <1>3 DEF CompareSql, Comparable, Against, FromBool, Ordered
  <1> QED BY <1>1, <1>3, <1>4

\* A finite set with two elements has more than one.
LEMMA TwoElements ==
  ASSUME NEW S, IsFiniteSet(S), NEW a \in S, NEW b \in S, a # b
  PROVE  ~(Cardinality(S) <= 1)
  <1>1. IsFiniteSet({a}) /\ Cardinality({a}) = 1
    BY FS_Singleton
  <1>2. Cardinality({a} \union {b}) = 2
    BY <1>1, FS_AddElement
  <1>3. {a} \union {b} \in SUBSET S
    OBVIOUS
  <1>4. Cardinality({a} \union {b}) <= Cardinality(S) /\ Cardinality(S) \in Nat
    BY <1>3, FS_Subset, FS_CardinalityType
  <1> QED BY <1>2, <1>4

\* The ids under a key are finitely many.
LEMMA EntriesFinite ==
  ASSUME NEW t, RawInv(t), NEW ix, NEW def, Maintained(t, ix, def), NEW k \in DOMAIN ix.entries
  PROVE  IsFiniteSet(ix.entries[k])
  <1>1. MaxRowId \in Nat
    BY CatalogAssumption
  <1>2. IsFiniteSet(0..MaxRowId)
    BY <1>1, FS_Interval
  <1>3. ASSUME NEW id \in ix.entries[k] PROVE id \in 0..MaxRowId
    <2>1. PICK p \in Covered(t, def.columns) : t.ids[p] = id
      BY <1>3 DEF Maintained
    <2>2. p \in DOMAIN t.ids
      BY IdsDiffer DEF Covered
    <2>3. t.ids[p] \in Nat /\ t.ids[p] <= MaxRowId
      BY <2>2 DEF RawInv, Shape, IdsInv
    <2> QED BY <1>1, <2>1, <2>3
  <1>4. ix.entries[k] \in SUBSET (0..MaxRowId)
    BY <1>3
  <1> QED BY <1>2, <1>4, FS_Subset

\* Definitions of one table that share a name define the same index.  The runtime
\* indexes are a map from names: where two keys want one name, as the primary key
\* and the column that ADD COLUMN ... PRIMARY KEY brings, only the later one counts.
NamesDiffer ==
  \A n \in DOMAIN tables : \A i, j \in DOMAIN tables[n].indexes :
    tables[n].indexes[i].name = tables[n].indexes[j].name =>
      /\ tables[n].indexes[i].columns = tables[n].indexes[j].columns
      /\ tables[n].indexes[i].unique = tables[n].indexes[j].unique

\* No two rows agree on a PRIMARY KEY or on a UNIQUE key without NULL, in every
\* reachable catalog in which no two definitions want one name for different
\* indexes: each such key has its automatic index, which holds every row under its
\* key and was found free of duplicates when the catalog was published.
THEOREM KeysAreUniqueHolds == Spec => [](NamesDiffer => KeysAreUnique)
  <1>1. ASSUME CatInv(tables), CatData(tables), Valid(tables), NamesDiffer PROVE KeysAreUnique
    <2> SUFFICES ASSUME NEW n \in DOMAIN tables, NEW c \in Range(tables[n].constraints),
                        c.kind \in {"PrimaryKey", "Unique"},
                        NEW p \in DOMAIN tables[n].rows, NEW q \in DOMAIN tables[n].rows, p # q,
                        HasColumns(tables[n], c.columns), SameKey(tables[n], p, q, c.columns)
                 PROVE  FALSE
      BY DEF KeysAreUnique
    <2> DEFINE t == tables[n]
    <2>1. DataInv(t) /\ TableInv(n, t) /\ ValidateUniqueIndexes(t)
      BY <1>1 DEF CatInv, CatData, Valid
    <2>2. \A i, j \in DOMAIN t.indexes : t.indexes[i].name = t.indexes[j].name =>
            t.indexes[i].columns = t.indexes[j].columns /\ t.indexes[i].unique = t.indexes[j].unique
      BY <1>1 DEF NamesDiffer
    <2>3. /\ c \in Range(t.constraints) /\ p \in DOMAIN t.rows /\ q \in DOMAIN t.rows
          /\ HasColumns(t, c.columns) /\ SameKey(t, p, q, c.columns)
      OBVIOUS
    <2> HIDE DEF t
    <2>4. RawInv(t) /\ IndexInv(t) /\ SchemaInv(n, t) /\ IsSeq(t.columns) /\ IsSeq(t.constraints) /\ IsSeq(t.indexes)
      BY <2>1 DEF TableInv, RawInv, Shape, IsColumns
    <2>5. PICK j \in DOMAIN t.indexes : t.indexes[j] = IndexOf(n, c)
      <3>1. PICK k \in DOMAIN t.constraints : t.constraints[k] = c
        BY <2>3 DEF Range
      <3>2. \E i \in DOMAIN AutomaticIndexes(n, t) : AutomaticIndexes(n, t)[i] = IndexOf(n, c)
        BY <2>4, <3>1, AutoDefs
      <3> QED BY <2>4, <3>2 DEF SchemaInv
    <2> DEFINE name == t.indexes[j].name
               ix == t.runtime[name]
               k == KeyOf(t, p, c.columns)
    <2>6. t.indexes[j].columns = c.columns /\ t.indexes[j].unique
      <3>1. c.kind # "ForeignKey"
        OBVIOUS
      <3>2. t.indexes[j].columns = c.columns
        BY <2>5 DEF IndexOf
      <3>3. t.indexes[j].unique = (c.kind # "ForeignKey")
        BY <2>5 DEF IndexOf
      <3> QED BY <3>1, <3>2, <3>3
    <2>7. name \in Names(t.indexes)
      BY DEF Names
    <2>8. PICK l \in DOMAIN t.indexes : LastNamed(t, name) = t.indexes[l] /\ t.indexes[l].name = name
      BY <2>4, <2>7, LastNamedFacts
    <2>9. t.indexes[l].columns = c.columns /\ t.indexes[l].unique
      BY <2>2, <2>6, <2>8
    <2>10. Maintained(t, ix, t.indexes[l]) /\ name \in DOMAIN t.runtime
      BY <2>4, <2>7, <2>8 DEF IndexInv
    <2>11. ix.unique
      BY <2>9, <2>10 DEF Maintained
    <2>12. ASSUME NEW i \in DOMAIN c.columns
           PROVE  LET x == ColumnIndex(t, c.columns[i])
                  IN t.rows[p][x] = t.rows[q][x] /\ ~IsNull(t.rows[p][x])
      <3> DEFINE x == ColumnIndex(t, c.columns[i])
      <3>1. x \in DOMAIN t.columns
        BY <2>3, ColumnFacts DEF HasColumns
      <3>2. CompareSql(t.rows[p][x], "=", t.rows[q][x]) = "True"
        BY <2>3 DEF SameKey
      <3> HIDE DEF x
      <3>3. Typed(t.columns[x], t.rows[p][x]) /\ Typed(t.columns[x], t.rows[q][x])
        BY <2>1, <2>3, <3>1 DEF DataInv, Data, RowsInv, RowInv
      <3>4. t.rows[p][x] = t.rows[q][x] /\ ~IsNull(t.rows[p][x])
        BY <3>2, <3>3, EqualIsSame
      <3> QED BY <3>4 DEF x
    <2>13. KeyOf(t, q, c.columns) = k /\ ~HasNull(k)
      BY <2>12 DEF KeyOf, IndexKey, HasNull
    <2> HIDE DEF k, ix, name
    <2>14. p \in Covered(t, c.columns) /\ q \in Covered(t, c.columns)
      BY <2>3 DEF Covered
    <2>15. k \in DOMAIN ix.entries
      BY <2>9, <2>10, <2>14 DEF Maintained, k
    <2>16. t.ids[p] \in ix.entries[k] /\ t.ids[q] \in ix.entries[k]
      BY <2>9, <2>10, <2>13, <2>14, <2>15 DEF Maintained, k
    <2>17. t.ids[p] # t.ids[q]
      BY <2>3, <2>4, IdsDiffer
    <2>18. IsFiniteSet(ix.entries[k])
      BY <2>4, <2>10, <2>15, EntriesFinite
    <2>19. Cardinality(ix.entries[k]) <= 1
      BY <2>1, <2>10, <2>11, <2>13, <2>15 DEF ValidateUniqueIndexes, ix
    <2> QED BY <2>16, <2>17, <2>18, <2>19, TwoElements
  <1> QED BY <1>1, CatalogInvariant, DataInvariant, ValidInvariant, PTL

---------------------------------------------------------------------------
(* Index lookup *)

\* A stored value and a literal of the column's type compare as keys the way they
\* compare in SQL.
LEMMA KeyPartFollowsSql ==
  ASSUME NEW column, NEW a, Typed(column, a), NEW b \in SqlValue, b.type = column.type,
         NEW op, CompareSql(a, op, b) = "True"
  PROVE  CompareKeyPart(a, op, b) /\ (op = "=" => a = b)
  <1>1. ~IsNull(a) /\ ~IsNull(b) /\ a \in SqlValue
    BY DEF CompareSql, Typed
  <1>2. a.type = b.type
    BY <1>1, ValueFacts DEF Typed
  <1>3. FromBool(Ordered(a.v, op, b.v)) = "True"
    BY <1>1, <1>2 DEF CompareSql, Comparable, Against
  <1>4. Ordered(a.v, op, b.v)
    BY <1>3 DEF FromBool
  <1>5. CompareKeyPart(a, op, b)
    BY <1>2, <1>4 DEF CompareKeyPart
  <1>6. Typed(column, b)
    BY DEF Typed
  <1>7. op = "=" => a = b
    BY <1>6, EqualIsSame
  <1> QED BY <1>5, <1>7

\* A row that satisfies a selection satisfies each of its comparisons.
LEMMA AtomHolds ==
  ASSUME NEW t, NEW sel, NEW row, EvalTruth(t, sel, row) = "True", NEW i \in DOMAIN sel,
         sel[i].op # "IsNull"
  PROVE  CompareSql(row[ColumnIndex(t, sel[i].col)], sel[i].op, sel[i].val) = "True"
  <1>1. AtomTruth(t, sel[i], row) = "True"
    BY DEF EvalTruth
  <1> QED BY <1>1 DEF AtomTruth

\* The first predicate on a column, where there is one.
LEMMA FirstFacts ==
  ASSUME NEW sel, IsSeq(sel), NEW A, A \subseteq DOMAIN sel, A # {}
  PROVE  (CHOOSE i \in A : \A j \in A : i <= j) \in A
  <1>1. A \subseteq Nat
    BY SeqIsFunction
  <1>2. \E i \in A : \A j \in A : i <= j
    BY <1>1, LeastNumber
  <1> QED BY <1>2

\* An index offers every row that satisfies the selection.
LEMMA OfferFinds ==
  ASSUME NEW t, RawInv(t), DataInv(t), NEW ix, NEW def, Maintained(t, ix, def),
         IsSeq(def.columns), HasColumns(t, def.columns),
         NEW sel, IsSeq(sel), \A i \in DOMAIN sel : sel[i].op # "IsNull" => sel[i].val \in SqlValue,
         WellTyped(t, sel), NEW p \in DOMAIN t.rows, EvalTruth(t, sel, t.rows[p]) = "True"
  PROVE  t.ids[p] \in IndexOffer(ix, sel).ids
  <1> DEFINE named(c) == {i \in DOMAIN sel : sel[i].op # "IsNull" /\ sel[i].col = c}
             first(c) == sel[CHOOSE i \in named(c) : \A j \in named(c) : i <= j]
             equal(c) == named(c) # {} /\ first(c).op = "="
             N == Len(ix.columns)
             Fits(k) == /\ \A i \in 1..k : equal(ix.columns[i])
                        /\ k = N \/ ~equal(ix.columns[k + 1])
             prefix == CHOOSE k \in 0..N : Fits(k)
             ranged == /\ prefix < N
                       /\ named(ix.columns[prefix + 1]) # {}
                       /\ first(ix.columns[prefix + 1]).op \in {"<", "<=", ">", ">="}
             bound == first(ix.columns[prefix + 1])
             wanted == {key \in DOMAIN ix.entries :
                          /\ \A i \in 1..prefix : key[i] = first(ix.columns[i]).val
                          /\ ranged => CompareKeyPart(key[prefix + 1], bound.op, bound.val)
                          /\ prefix = N => key \in ix.bloom}
             k == KeyOf(t, p, def.columns)
  <1>1. IndexOffer(ix, sel).ids = UNION {ix.entries[key] : key \in wanted}
    BY DEF IndexOffer
  <1>2. /\ ix.columns = def.columns /\ DOMAIN ix.entries \subseteq ix.bloom
        /\ k \in DOMAIN ix.entries /\ t.ids[p] \in ix.entries[k]
    <2>1. p \in Covered(t, def.columns)
      BY DEF Covered
    <2>2. ix.columns = def.columns /\ DOMAIN ix.entries \subseteq ix.bloom /\ k \in DOMAIN ix.entries
      BY <2>1 DEF Maintained
    <2>3. t.ids[p] \in ix.entries[k]
      BY <2>1, <2>2 DEF Maintained
    <2> QED BY <2>2, <2>3
  <1>3. N \in Nat /\ DOMAIN ix.columns = 1..N
    BY <1>2, SeqIsFunction
  <1>4. ASSUME NEW i \in 1..N, named(ix.columns[i]) # {}
        PROVE  /\ CompareKeyPart(k[i], first(ix.columns[i]).op, first(ix.columns[i]).val)
               /\ first(ix.columns[i]).op = "=" => k[i] = first(ix.columns[i]).val
    <2> DEFINE c == ix.columns[i]
               m == CHOOSE j \in named(c) : \A l \in named(c) : j <= l
               x == ColumnIndex(t, c)
    <2>1. m \in named(c)
      <3>1. named(c) \subseteq DOMAIN sel /\ named(c) # {}
        BY <1>4
      <3> HIDE DEF named
      <3> QED BY <3>1, FirstFacts
    <2>2. m \in DOMAIN sel /\ sel[m].op # "IsNull" /\ sel[m].col = c /\ first(c) = sel[m]
      BY <2>1
    <2> HIDE DEF m
    <2>3. HasColumn(t, c) /\ sel[m].val \in SqlValue /\ sel[m].val.type = t.columns[x].type
      BY <2>2 DEF WellTyped
    <2>4. x \in DOMAIN t.columns
      BY <2>3, ColumnFacts
    <2>5. Typed(t.columns[x], t.rows[p][x])
      BY <2>4 DEF DataInv, Data, RowsInv, RowInv
    <2>6. CompareSql(t.rows[p][x], sel[m].op, sel[m].val) = "True"
      BY <2>2, AtomHolds
    <2>7. k[i] = t.rows[p][x]
      BY <1>2, <1>3 DEF KeyOf, IndexKey
    <2> HIDE DEF x, k, c
    <2>8. CompareKeyPart(k[i], sel[m].op, sel[m].val) /\ (sel[m].op = "=" => k[i] = sel[m].val)
      BY <2>3, <2>5, <2>6, <2>7, KeyPartFollowsSql
    <2> HIDE DEF first
    <2> QED BY <2>2, <2>8 DEF c
  <1> HIDE DEF named, first, k
  <1>5. prefix \in 0..N /\ Fits(prefix)
    <2> DEFINE S == {j \in 0..N : \A i \in 1..j : equal(ix.columns[i])}
    <2> HIDE DEF equal
    <2>1. S \subseteq 0..N /\ S # {}
      <3>1. 0 \in S
        BY <1>3
      <3> QED BY <3>1
    <2>2. PICK j \in S : \A l \in S : l <= j
      <3> HIDE DEF S
      <3> QED BY <1>3, <2>1, GreatestNumber
    <2>3. j \in 0..N /\ \A i \in 1..j : equal(ix.columns[i])
      BY <2>2
    <2>4. j = N \/ ~equal(ix.columns[j + 1])
      <3>1. SUFFICES ASSUME j # N, equal(ix.columns[j + 1]) PROVE FALSE
        OBVIOUS
      <3>2. j + 1 \in 0..N /\ \A i \in 1..(j + 1) : i \in 1..j \/ i = j + 1
        BY <1>3, <2>3, <3>1
      <3>3. j + 1 \in S
        BY <2>3, <3>1, <3>2
      <3> QED BY <1>3, <2>2, <2>3, <3>3
    <2>5. \E m \in 0..N : Fits(m)
      BY <2>3, <2>4
    <2> HIDE DEF Fits
    <2> QED BY <2>5
  <1> HIDE DEF prefix
  <1>6. \A i \in 1..prefix : i \in 1..N
    BY <1>3, <1>5
  <1>7. \A i \in 1..prefix : k[i] = first(ix.columns[i]).val
    BY <1>4, <1>5, <1>6
  <1>8. ranged => CompareKeyPart(k[prefix + 1], bound.op, bound.val)
    <2>1. ranged => prefix + 1 \in 1..N
      BY <1>3, <1>5
    <2> QED BY <1>4, <2>1
  <1>9. k \in wanted
    BY <1>2, <1>7, <1>8
  <1> HIDE DEF wanted
  <1> QED BY <1>1, <1>2, <1>9

\* A WHERE clause selects through any index what it selects by a scan, as long as
\* its literals have the types of their columns: for every schema, every selection
\* and every index the executor may choose, with entries and Bloom filters
\* maintained row by row or rebuilt.
THEOREM IndexFindsWhatScanFindsHolds == Spec => []IndexFindsWhatScanFinds
  <1>1. ASSUME CatInv(tables), CatData(tables) PROVE IndexFindsWhatScanFinds
    <2> SUFFICES ASSUME NEW n \in DOMAIN tables, NEW sel \in Selections, WellTyped(tables[n], sel),
                        NEW ids \in CandidateRowIds(tables[n], sel)
                 PROVE  Selected(tables[n], ids, sel) = Selected(tables[n], Range(tables[n].ids), sel)
      BY DEF IndexFindsWhatScanFinds
    <2> DEFINE t == tables[n]
               offers == {IndexOffer(t.runtime[name], sel) : name \in DOMAIN t.runtime}
               best == {o \in offers : /\ o.score > 0
                                       /\ \A q \in offers : q.score <= o.score}
    <2>1. DataInv(t) /\ TableInv(n, t)
      BY <1>1 DEF CatInv, CatData
    <2>2. RawInv(t) /\ IndexInv(t) /\ IsSeq(t.indexes)
      BY <2>1 DEF TableInv, RawInv, Shape
    <2>3. IsSeq(sel) /\ \A i \in DOMAIN sel : sel[i].op # "IsNull" => sel[i].val \in SqlValue
      <3>1. /\ sel \in Seq(Range(sel))
            /\ \A i \in DOMAIN sel : sel[i].op # "IsNull" => sel[i].val \in SqlValue
        BY CatalogAssumption
      <3> QED BY <3>1 DEF IsSeq
    <2>4. ids = Range(t.ids) \/ \E o \in offers : ids = o.ids
      BY DEF CandidateRowIds
    <2>5. \A p \in DOMAIN t.rows : t.ids[p] \in Range(t.ids)
      BY <2>2, IdsDiffer DEF Range
    <2>6. CASE ids = Range(t.ids)
      BY <2>6
    <2>7. CASE \E o \in offers : ids = o.ids
      <3>1. PICK name \in DOMAIN t.runtime : ids = IndexOffer(t.runtime[name], sel).ids
        BY <2>7
      <3>2. name \in Names(t.indexes) /\ Maintained(t, t.runtime[name], LastNamed(t, name))
        BY <2>2 DEF IndexInv
      <3>3. PICK l \in DOMAIN t.indexes : LastNamed(t, name) = t.indexes[l]
        BY <2>2, <3>2, LastNamedFacts
      <3>4. IsSeq(t.indexes[l].columns) /\ HasColumns(t, t.indexes[l].columns)
        BY <2>1, ExistMeans DEF DataInv, Data, IndexesInv, IndexDefInv, Refreshed
      <3>5. WellTyped(t, sel)
        OBVIOUS
      <3> HIDE DEF t
      <3>6. ASSUME NEW p \in DOMAIN t.rows, EvalTruth(t, sel, t.rows[p]) = "True" PROVE t.ids[p] \in ids
        BY <2>1, <2>2, <2>3, <3>1, <3>2, <3>3, <3>4, <3>5, <3>6, OfferFinds
      <3>7. Selected(t, ids, sel) = Selected(t, Range(t.ids), sel)
        BY <2>5, <3>6 DEF Selected
      <3> QED BY <3>7 DEF t
    <2> QED BY <2>4, <2>6, <2>7
  <1> QED BY <1>1, CatalogInvariant, DataInvariant, PTL
=============================================================================
