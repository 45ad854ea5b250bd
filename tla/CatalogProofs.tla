--------------------------- MODULE CatalogProofs ---------------------------
(***************************************************************************)
(* Theorems about Catalog, for all table definitions, statements, values   *)
(* and bounds: row ids increase, the indexes that INSERT maintains row by  *)
(* row are those a restart builds, a restart changes no table, and foreign *)
(* keys lead to rows.                                                      *)
(***************************************************************************)
EXTENDS Catalog, Induction

---------------------------------------------------------------------------
(* The invariant of one table *)

Fields == {"columns", "constraints", "indexes", "rows", "ids", "next", "runtime"}

IsColumns(columns) ==
  IsSeq(columns) /\ \A i \in DOMAIN columns : DOMAIN columns[i] = ColumnFields

\* Sequences, and an id for each row.
Shape(t) ==
  /\ DOMAIN t = Fields
  /\ IsColumns(t.columns) /\ IsSeq(t.constraints) /\ IsSeq(t.indexes) /\ IsSeq(t.rows)
  /\ t.ids \in Seq(Nat) /\ t.next \in Nat /\ Len(t.ids) = Len(t.rows)

\* Ids increase and were given out.
IdsInv(t) ==
  /\ \A p, q \in DOMAIN t.ids : p < q => t.ids[p] < t.ids[q]
  /\ \A p \in DOMAIN t.ids : t.ids[p] < t.next /\ t.ids[p] <= MaxRowId
  /\ t.next > 0

\* What ALTER works on before it refreshes the metadata.
RawInv(t) == Shape(t) /\ IdsInv(t)

\* The rows an index on these columns covers, and their keys.
Covered(t, cols) == IF HasColumns(t, cols) THEN DOMAIN t.rows ELSE {}

KeyOf(t, p, cols) == IndexKey(t, t.rows[p], cols)

\* The entries are exactly the ids of the rows under their keys, however the
\* index came about.
Maintained(t, ix, def) ==
  /\ DOMAIN ix = {"columns", "unique", "bloom", "entries"}
  /\ ix.columns = def.columns /\ ix.unique = def.unique
  /\ ix.entries = [k \in DOMAIN ix.entries |-> ix.entries[k]]
  /\ DOMAIN ix.entries \subseteq ix.bloom
  /\ \A k : k \in DOMAIN ix.entries <=>
              \E p \in Covered(t, def.columns) : KeyOf(t, p, def.columns) = k
  /\ \A k \in DOMAIN ix.entries : \A id : id \in ix.entries[k] <=>
       \E p \in Covered(t, def.columns) : KeyOf(t, p, def.columns) = k /\ t.ids[p] = id

IndexInv(t) ==
  /\ DOMAIN t.runtime = Names(t.indexes)
  /\ \A name \in Names(t.indexes) : Maintained(t, t.runtime[name], LastNamed(t, name))

\* The metadata that a restart would derive is there.
SchemaInv(n, t) ==
  /\ \A i \in DOMAIN AutomaticIndexes(n, t) : \E j \in DOMAIN t.indexes :
       t.indexes[j] = AutomaticIndexes(n, t)[i] /\ t.indexes[j].automatic
  /\ t.constraints = <<>> =>
       \A i \in DOMAIN t.columns : ~t.columns[i].pk /\ ~t.columns[i].unique

TableInv(n, t) == RawInv(t) /\ IndexInv(t) /\ SchemaInv(n, t)

CatInv(cat) == \A n \in DOMAIN cat : TableInv(n, cat[n])

---------------------------------------------------------------------------
(* Elements at chosen positions *)

\* The row ids at chosen positions of the rows of a table.
LEMMA AtIds ==
  ASSUME NEW t, Len(t.rows) \in Nat, NEW K, K \subseteq 1..Len(t.rows)
  PROVE  /\ IsSeq(At(t.ids, K)) /\ Len(At(t.ids, K)) = Cardinality(K)
         /\ DOMAIN At(t.ids, K) = 1..Cardinality(K)
         /\ \A i \in 1..Cardinality(K) : At(t.ids, K)[i] = t.ids[Place(K, i)]
  <1> DEFINE N == Len(t.rows)
             f == t.ids
  <1>1. N \in Nat /\ K \subseteq 1..N
    OBVIOUS
  <1> HIDE DEF N, f
  <1>2. /\ IsSeq(At(f, K)) /\ Len(At(f, K)) = Cardinality(K)
        /\ DOMAIN At(f, K) = 1..Cardinality(K)
    BY <1>1, AtFacts
  <1>3. \A i \in 1..Cardinality(K) : At(f, K)[i] = f[Place(K, i)]
    <2>1. At(f, K) = [i \in 1..Cardinality(K) |-> f[Place(K, i)]]
      BY DEF At, Place, Low
    <2> QED BY <2>1
  <1> QED BY <1>2, <1>3 DEF f

---------------------------------------------------------------------------
(* Keys and indexes *)

\* A key depends on the columns and the row.
LEMMA SameKeys ==
  ASSUME NEW t, NEW u, t.columns = u.columns, NEW cols, NEW row
  PROVE  /\ HasColumns(t, cols) <=> HasColumns(u, cols)
         /\ IndexKey(t, row, cols) = IndexKey(u, row, cols)
  BY DEF HasColumns, HasColumn, IndexKey, ColumnIndex

\* BuildIndex makes the entries of the table.
LEMMA BuildMaintains ==
  ASSUME NEW t, NEW def
  PROVE  Maintained(t, BuildIndex(t, def), def)
  <1> DEFINE ix == BuildIndex(t, def)
             P == Covered(t, def.columns)
             K == {KeyOf(t, p, def.columns) : p \in P}
  <1>1. ix = [columns |-> def.columns, unique |-> def.unique, bloom |-> K,
              entries |-> [k \in K |-> {t.ids[p] : p \in {q \in P : KeyOf(t, q, def.columns) = k}}]]
    BY DEF BuildIndex, Covered, KeyOf
  <1> HIDE DEF ix, P
  <1>2. DOMAIN ix = {"columns", "unique", "bloom", "entries"}
    BY <1>1
  <1>3. /\ ix.columns = def.columns /\ ix.unique = def.unique /\ ix.bloom = K
        /\ ix.entries = [k \in K |-> {t.ids[p] : p \in {q \in P : KeyOf(t, q, def.columns) = k}}]
    BY <1>1
  <1>4. DOMAIN ix.entries = K
    BY <1>3
  <1>5. ix.entries = [k \in DOMAIN ix.entries |-> ix.entries[k]]
    BY <1>3
  <1>6. \A k \in DOMAIN ix.entries : \A id : id \in ix.entries[k] <=>
          \E p \in P : KeyOf(t, p, def.columns) = k /\ t.ids[p] = id
    BY <1>3
  <1>7. \A k : k \in DOMAIN ix.entries <=> \E p \in P : KeyOf(t, p, def.columns) = k
    BY <1>4
  <1> QED BY <1>2, <1>3, <1>4, <1>5, <1>6, <1>7 DEF Maintained, ix, P

\* An index is maintained for every table with the same rows and ids.
LEMMA MaintainedSame ==
  ASSUME NEW t, NEW u, NEW ix, NEW def, Maintained(t, ix, def),
         t.columns = u.columns, t.rows = u.rows, t.ids = u.ids
  PROVE  Maintained(u, ix, def)
  <1>1. Covered(t, def.columns) = Covered(u, def.columns)
    BY SameKeys DEF Covered
  <1>2. \A p : KeyOf(t, p, def.columns) = KeyOf(u, p, def.columns)
    BY SameKeys DEF KeyOf
  <1> QED BY <1>1, <1>2 DEF Maintained

\* Two maintained indexes of one definition have the same entries.
LEMMA MaintainedUnique ==
  ASSUME NEW t, NEW ix, NEW iy, NEW def, Maintained(t, ix, def), Maintained(t, iy, def)
  PROVE  ix.entries = iy.entries
  <1> DEFINE e == ix.entries
             f == iy.entries
  <1>0. e = [k \in DOMAIN e |-> e[k]] /\ f = [k \in DOMAIN f |-> f[k]]
    BY DEF Maintained
  <1>1. ASSUME NEW k PROVE k \in DOMAIN e <=> k \in DOMAIN f
    BY DEF Maintained
  <1>2. ASSUME NEW k, k \in DOMAIN e, NEW id PROVE id \in e[k] <=> id \in f[k]
    <2>1. k \in DOMAIN f
      BY <1>1, <1>2
    <2>2. id \in e[k] <=> \E p \in Covered(t, def.columns) :
                             KeyOf(t, p, def.columns) = k /\ t.ids[p] = id
      BY <1>2 DEF Maintained
    <2>3. id \in f[k] <=> \E p \in Covered(t, def.columns) :
                             KeyOf(t, p, def.columns) = k /\ t.ids[p] = id
      BY <2>1 DEF Maintained
    <2> QED BY <2>2, <2>3
  <1> HIDE DEF e, f
  <1>3. DOMAIN e = DOMAIN f
    BY <1>1
  <1>4. \A k \in DOMAIN e : e[k] = f[k]
    BY <1>2
  <1>5. e = f
    BY <1>0, <1>3, <1>4
  <1> QED BY <1>5 DEF e, f

---------------------------------------------------------------------------
(* Rebuilding indexes and refreshing metadata *)

\* The same table but for the runtime indexes.
SameData(t, u) ==
  /\ DOMAIN t = DOMAIN u
  /\ t.columns = u.columns /\ t.constraints = u.constraints /\ t.indexes = u.indexes
  /\ t.rows = u.rows /\ t.ids = u.ids /\ t.next = u.next

\* The definition that counts for a name depends on the index list only.
LEMMA SameIndexes ==
  ASSUME NEW t, NEW u, t.indexes = u.indexes, NEW name
  PROVE  LastNamed(t, name) = LastNamed(u, name)
  BY DEF LastNamed

\* RebuildIndex makes every index maintained and touches nothing else.
LEMMA RebuildFacts ==
  ASSUME NEW t, RawInv(t)
  PROVE  SameData(t, RebuildIndex(t)) /\ RawInv(RebuildIndex(t)) /\ IndexInv(RebuildIndex(t))
  <1> DEFINE r == RebuildIndex(t)
  <1>1. /\ DOMAIN t = Fields
        /\ r = [t EXCEPT !.runtime = [name \in Names(t.indexes) |-> BuildIndex(t, LastNamed(t, name))]]
    BY DEF RawInv, Shape, RebuildIndex
  <1> HIDE DEF r
  <1>2. /\ SameData(t, r)
        /\ r.runtime = [name \in Names(t.indexes) |-> BuildIndex(t, LastNamed(t, name))]
    BY <1>1 DEF SameData, Fields
  <1>3. RawInv(r)
    BY <1>2 DEF RawInv, SameData, Shape, IdsInv
  <1>4. DOMAIN r.runtime = Names(r.indexes) /\ Names(r.indexes) = Names(t.indexes)
    BY <1>2 DEF SameData
  <1>5. ASSUME NEW name \in Names(t.indexes)
        PROVE  Maintained(r, r.runtime[name], LastNamed(r, name))
    <2>1. r.runtime[name] = BuildIndex(t, LastNamed(t, name))
      BY <1>2
    <2>2. Maintained(t, r.runtime[name], LastNamed(t, name))
      BY <2>1, BuildMaintains
    <2>3. LastNamed(r, name) = LastNamed(t, name)
      BY <1>2, SameIndexes DEF SameData
    <2>4. Maintained(r, r.runtime[name], LastNamed(t, name))
      BY <2>2, <1>2, MaintainedSame DEF SameData
    <2> QED BY <2>3, <2>4
  <1> QED BY <1>2, <1>3, <1>4, <1>5 DEF IndexInv, r

\* The automatic indexes depend on columns and constraints only.
LEMMA AutoSame ==
  ASSUME NEW n, NEW t, NEW u, t.columns = u.columns, t.constraints = u.constraints
  PROVE  AutomaticIndexes(n, t) = AutomaticIndexes(n, u)
  BY DEF AutomaticIndexes

\* So does the metadata a restart would derive.
LEMMA SchemaSame ==
  ASSUME NEW n, NEW t, NEW u, SchemaInv(n, t), t.columns = u.columns,
         t.constraints = u.constraints, t.indexes = u.indexes
  PROVE  SchemaInv(n, u)
  <1>1. AutomaticIndexes(n, t) = AutomaticIndexes(n, u)
    BY AutoSame
  <1> QED BY <1>1 DEF SchemaInv

\* Positions in a sequence that satisfy a condition.
LEMMA Positions ==
  ASSUME NEW s, IsSeq(s), NEW K, K \subseteq DOMAIN s
  PROVE  /\ Len(s) \in Nat /\ K \subseteq 1..Len(s)
         /\ IsSeq(At(s, K)) /\ \A i \in DOMAIN At(s, K) : \E p \in K : At(s, K)[i] = s[p]
  <1>1. Len(s) \in Nat /\ K \subseteq 1..Len(s)
    BY SeqIsFunction
  <1>2. /\ IsSeq(At(s, K)) /\ DOMAIN At(s, K) = 1..Cardinality(K)
        /\ \A i \in 1..Cardinality(K) : At(s, K)[i] = s[Place(K, i)]
    BY <1>1, AtFacts
  <1>3. \A i \in 1..Cardinality(K) : Place(K, i) \in K
    BY <1>1, PlaceFacts
  <1> QED BY <1>1, <1>2, <1>3

\* An operator mapped over a sequence gives a sequence.
LEMMA MappedIsSeq ==
  ASSUME NEW s, IsSeq(s), NEW f, f = [i \in DOMAIN s |-> f[i]]
  PROVE  IsSeq(f) /\ Len(f) = Len(s) /\ DOMAIN f = 1..Len(s) /\ Len(s) \in Nat
  <1>1. Len(s) \in Nat /\ DOMAIN s = 1..Len(s)
    BY SeqIsFunction
  <1>2. f = [i \in 1..Len(s) |-> f[i]]
    BY <1>1
  <1> QED BY <1>1, <1>2, FunctionIsSeq

\* The automatic indexes are a sequence of definitions marked automatic.
LEMMA AutoFacts ==
  ASSUME NEW n, NEW t, IsSeq(t.columns), IsSeq(t.constraints)
  PROVE  /\ IsSeq(AutomaticIndexes(n, t))
         /\ \A i \in DOMAIN AutomaticIndexes(n, t) : AutomaticIndexes(n, t)[i].automatic
  <1> DEFINE index(name, cols, unique) ==
               [name |-> name, columns |-> cols, unique |-> unique, automatic |-> TRUE]
             A == {i \in DOMAIN t.constraints : t.constraints[i].kind # "Check"}
             keys == At(t.constraints, A)
             c == [i \in DOMAIN keys |->
                     index(GeneratedConstraintName(n, keys[i]), keys[i].columns,
                           keys[i].kind # "ForeignKey")]
             B == {j \in DOMAIN t.columns :
                     /\ t.columns[j].pk \/ t.columns[j].unique
                     /\ \A i \in DOMAIN c : c[i].columns # <<t.columns[j].name>>}
             bare == At(t.columns, B)
             d == [i \in DOMAIN bare |->
                     index(<<n, bare[i].name, IF bare[i].pk THEN "pk" ELSE "uk">>,
                           <<bare[i].name>>, TRUE)]
  <1>1. AutomaticIndexes(n, t) = c \o d
    BY DEF AutomaticIndexes
  <1>2. IsSeq(keys) /\ IsSeq(bare)
    <2>1. A \subseteq DOMAIN t.constraints /\ B \subseteq DOMAIN t.columns
      OBVIOUS
    <2> HIDE DEF A, B
    <2> QED BY <2>1, Positions
  <1> HIDE DEF keys, bare
  <1>3. (\A i \in DOMAIN c : c[i].automatic) /\ (\A i \in DOMAIN d : d[i].automatic)
    OBVIOUS
  <1>4. c = [i \in DOMAIN keys |-> c[i]] /\ d = [i \in DOMAIN bare |-> d[i]]
    OBVIOUS
  <1> HIDE DEF c, d
  <1>5. IsSeq(c) /\ DOMAIN c = 1..Len(c) /\ IsSeq(d) /\ DOMAIN d = 1..Len(d)
    BY <1>2, <1>4, MappedIsSeq, SeqIsFunction
  <1>6. IsSeq(c \o d)
    BY <1>5, ConcatFacts
  <1>7. ASSUME NEW i \in DOMAIN (c \o d) PROVE (c \o d)[i].automatic
    <2>1. /\ Len(c) \in Nat /\ Len(d) \in Nat /\ i \in 1..(Len(c) + Len(d))
          /\ \A j \in 1..Len(c) : (c \o d)[j] = c[j]
          /\ \A j \in 1..Len(d) : (c \o d)[Len(c) + j] = d[j]
      BY <1>5, ConcatFacts
    <2>2. CASE i \in 1..Len(c)
      BY <1>3, <1>5, <2>1, <2>2
    <2>3. CASE i \notin 1..Len(c)
      <3>1. i - Len(c) \in 1..Len(d) /\ Len(c) + (i - Len(c)) = i
        BY <2>1, <2>3
      <3> QED BY <1>3, <1>5, <2>1, <3>1
    <2> QED BY <2>2, <2>3
  <1> QED BY <1>1, <1>6, <1>7

---------------------------------------------------------------------------
(* Recursive functions exist, and what they compute *)

\* The recursive function of Marked exists: one constraint after the other.
LEMMA MarkedSteps ==
  ASSUME NEW columns, NEW constraints, IsSeq(constraints)
  PROVE  \E m : /\ Marked(columns, constraints) = m[Len(constraints)]
               /\ m[0] = columns
               /\ \A k \in 0..(Len(constraints) - 1) :
                    m[k + 1] = MarkConstraint(m[k], constraints[k + 1])
  <1> DEFINE N == Len(constraints)
             Body(g, i) == IF i = 0 THEN columns ELSE MarkConstraint(g[i - 1], constraints[i])
             m == CHOOSE g : g = [i \in 0..N |-> Body(g, i)]
             E == {k \in 0..N : \E g : g = [i \in 0..k |-> Body(g, i)]}
  <1>0. N \in Nat /\ 0 \in 0..N /\ N \in 0..N
    BY SeqIsFunction
  <1>1. Marked(columns, constraints) = m[N]
    BY DEF Marked
  <1>2. m = [i \in 0..N |-> Body(m, i)]
    <2>1. 0 \in E
      <3> DEFINE g == [i \in 0..0 |-> columns]
      <3>1. g = [i \in 0..0 |-> Body(g, i)]
        OBVIOUS
      <3> QED BY <1>0, <3>1
    <2>2. ASSUME NEW k \in 0..(N - 1), k \in E PROVE k + 1 \in E
      <3>1. PICK g : g = [i \in 0..k |-> Body(g, i)]
        BY <2>2
      <3> DEFINE h == [i \in 0..(k + 1) |->
                         IF i = k + 1 THEN MarkConstraint(g[k], constraints[k + 1]) ELSE g[i]]
      <3>2. ASSUME NEW i \in 0..(k + 1) PROVE h[i] = Body(h, i)
        <4>1. CASE i = 0
          BY <3>1, <4>1, <1>0
        <4>2. CASE i \in 1..k
          <5>1. i \in 0..k /\ i - 1 \in 0..k /\ i - 1 # k + 1 /\ i # k + 1 /\ i # 0 /\ i - 1 \in 0..(k + 1)
            BY <4>2, <1>0
          <5>2. g[i] = Body(g, i)
            BY <3>1, <5>1
          <5>3. h[i] = g[i] /\ h[i - 1] = g[i - 1]
            BY <5>1
          <5> QED BY <5>1, <5>2, <5>3
        <4>3. CASE i = k + 1
          <5>1. i - 1 = k /\ k \in 0..(k + 1) /\ k # k + 1 /\ i # 0
            BY <4>3, <1>0
          <5>2. h[k] = g[k]
            BY <5>1
          <5> QED BY <4>3, <5>1, <5>2
        <4> QED BY <4>1, <4>2, <4>3, <1>0
      <3>3. h = [i \in 0..(k + 1) |-> Body(h, i)]
        <4>1. h = [i \in 0..(k + 1) |-> h[i]]
          OBVIOUS
        <4> HIDE DEF h, Body
        <4> QED BY <3>2, <4>1
      <3>4. k + 1 \in 0..N
        BY <1>0
      <3> HIDE DEF h, Body
      <3> QED BY <3>3, <3>4
    <2>3. N \in E
      <3> HIDE DEF E
      <3> QED BY <1>0, <2>1, <2>2, UpTo
    <2>4. \E g : g = [i \in 0..N |-> Body(g, i)]
      BY <2>3
    <2> HIDE DEF Body
    <2> QED BY <2>4
  <1> HIDE DEF m
  <1>3. m[0] = columns
    BY <1>0, <1>2
  <1>4. ASSUME NEW k \in 0..(N - 1)
        PROVE  m[k + 1] = MarkConstraint(m[k], constraints[k + 1])
    <2>1. k + 1 \in 0..N /\ k + 1 # 0 /\ (k + 1) - 1 = k
      BY <1>0
    <2> QED BY <1>2, <2>1
  <1> QED BY <1>1, <1>3, <1>4

\* The columns after each constraint are as many as before.
LEMMA MarkedFacts ==
  ASSUME NEW columns, IsColumns(columns), NEW constraints, IsSeq(constraints)
  PROVE  /\ IsColumns(Marked(columns, constraints))
         /\ constraints = <<>> => Marked(columns, constraints) = columns
  <1> DEFINE N == Len(constraints)
  <1>0. N \in Nat /\ 0 \in 0..N /\ N \in 0..N
    BY SeqIsFunction
  <1>1. PICK m : /\ Marked(columns, constraints) = m[N]
                 /\ m[0] = columns
                 /\ \A k \in 0..(N - 1) : m[k + 1] = MarkConstraint(m[k], constraints[k + 1])
    BY MarkedSteps
  <1> DEFINE S == {k \in 0..N : IsColumns(m[k])}
  <1>4. 0 \in S
    BY <1>0, <1>1
  <1>5. ASSUME NEW k \in 0..(N - 1), k \in S PROVE k + 1 \in S
    <2>1. k + 1 \in 0..N /\ k + 1 # 0 /\ (k + 1) - 1 = k
      BY <1>0
    <2>2. m[k + 1] = MarkConstraint(m[k], constraints[k + 1])
      BY <1>1
    <2>3. m[k + 1] = [i \in DOMAIN m[k] |-> m[k + 1][i]]
      BY <2>2 DEF MarkConstraint
    <2>4. IsSeq(m[k + 1])
      BY <1>5, <2>3, MappedIsSeq DEF IsColumns
    <2>5. ASSUME NEW i \in DOMAIN m[k + 1] PROVE DOMAIN m[k + 1][i] = ColumnFields
      <3>1. i \in DOMAIN m[k] /\ DOMAIN m[k][i] = ColumnFields
        BY <1>5, <2>3 DEF IsColumns
      <3> QED BY <2>2, <3>1 DEF MarkConstraint, MarkPrimaryKey
    <2> QED BY <2>1, <2>4, <2>5 DEF IsColumns
  <1>6. N \in S
    <2> HIDE DEF S
    <2> QED BY <1>0, <1>4, <1>5, UpTo
  <1>7. constraints = <<>> => N = 0
    OBVIOUS
  <1> QED BY <1>1, <1>6, <1>7

\* The columns before the constraints mark them again, and the indexes that
\* CREATE INDEX made.
Reset(columns) ==
  [i \in DOMAIN columns |-> [columns[i] EXCEPT !.pk = FALSE, !.unique = FALSE]]

Own(indexes) == At(indexes, {i \in DOMAIN indexes : ~indexes[i].automatic})

\* ALTER leaves metadata that a restart would derive.
LEMMA RefreshFacts ==
  ASSUME NEW n, NEW t, RawInv(t)
  PROVE  LET r == RefreshConstraintMetadata(n, t) IN
         /\ TableInv(n, r)
         /\ r.rows = t.rows /\ r.ids = t.ids /\ r.constraints = t.constraints
         /\ r.columns = Marked(Reset(t.columns), t.constraints)
         /\ r.indexes = AutomaticIndexes(n, r) \o Own(t.indexes)
  <1> DEFINE reset == [i \in DOMAIN t.columns |->
                         [t.columns[i] EXCEPT !.pk = FALSE, !.unique = FALSE]]
             cols == Marked(reset, t.constraints)
             marked == [t EXCEPT !.columns = cols]
             auto == AutomaticIndexes(n, marked)
             K == {i \in DOMAIN marked.indexes : ~marked.indexes[i].automatic}
             own == At(marked.indexes, K)
             u == [marked EXCEPT !.indexes = auto \o own]
  <1>1. RefreshConstraintMetadata(n, t) = RebuildIndex(u)
    BY DEF RefreshConstraintMetadata
  <1>2. DOMAIN t = Fields /\ IsColumns(t.columns) /\ IsSeq(t.constraints) /\ IsSeq(t.indexes)
    BY DEF RawInv, Shape
  <1>3. IsColumns(reset)
    <2>1. reset = [i \in DOMAIN t.columns |-> reset[i]]
      OBVIOUS
    <2>2. \A i \in DOMAIN reset : DOMAIN reset[i] = ColumnFields
      BY <1>2 DEF IsColumns
    <2> HIDE DEF reset
    <2> QED BY <1>2, <2>1, <2>2, MappedIsSeq DEF IsColumns
  <1>4. IsColumns(cols) /\ (t.constraints = <<>> => cols = reset)
    <2> HIDE DEF reset
    <2> QED BY <1>2, <1>3, MarkedFacts
  <1>5. t.constraints = <<>> => \A i \in DOMAIN cols : ~cols[i].pk /\ ~cols[i].unique
    <2>1. \A i \in DOMAIN reset : ~reset[i].pk /\ ~reset[i].unique
      BY <1>2 DEF IsColumns, ColumnFields
    <2> HIDE DEF reset
    <2> QED BY <1>4, <2>1
  <1> HIDE DEF reset, cols
  <1>6. /\ DOMAIN marked = Fields /\ marked.columns = cols
        /\ marked.constraints = t.constraints /\ marked.indexes = t.indexes
        /\ marked.rows = t.rows /\ marked.ids = t.ids /\ marked.next = t.next
    BY <1>2 DEF Fields
  <1> HIDE DEF marked
  <1>7. IsSeq(auto) /\ \A i \in DOMAIN auto : auto[i].automatic
    BY <1>2, <1>4, <1>6, AutoFacts DEF IsColumns
  <1>8. IsSeq(own)
    <2>1. K \subseteq DOMAIN marked.indexes
      OBVIOUS
    <2> HIDE DEF K
    <2> QED BY <2>1, <1>2, <1>6, Positions
  <1> HIDE DEF auto, own
  <1>9. /\ DOMAIN u = Fields /\ u.columns = cols /\ u.constraints = t.constraints
        /\ u.indexes = auto \o own /\ u.rows = t.rows /\ u.ids = t.ids /\ u.next = t.next
    BY <1>6 DEF Fields
  <1>10. /\ IsSeq(auto \o own) /\ Len(auto) \in Nat /\ Len(own) \in Nat
         /\ DOMAIN (auto \o own) = 1..(Len(auto) + Len(own)) /\ DOMAIN auto = 1..Len(auto)
         /\ \A i \in 1..Len(auto) : (auto \o own)[i] = auto[i]
    BY <1>7, <1>8, ConcatFacts, SeqIsFunction
  <1> HIDE DEF u
  <1>11. RawInv(u)
    BY <1>4, <1>9, <1>10 DEF RawInv, Shape, IdsInv
  <1>12. SchemaInv(n, u)
    <2>1. AutomaticIndexes(n, u) = auto
      BY <1>6, <1>9, AutoSame DEF auto
    <2>2. ASSUME NEW i \in DOMAIN auto
          PROVE  \E j \in DOMAIN u.indexes : u.indexes[j] = auto[i] /\ u.indexes[j].automatic
      <3>1. i \in DOMAIN (auto \o own) /\ (auto \o own)[i] = auto[i]
        BY <1>10
      <3> QED BY <3>1, <1>7, <1>9
    <2> QED BY <2>1, <2>2, <1>5, <1>9 DEF SchemaInv
  <1> DEFINE r == RebuildIndex(u)
  <1>13. SameData(u, r) /\ RawInv(r) /\ IndexInv(r)
    BY <1>11, RebuildFacts
  <1> HIDE DEF r
  <1>14. SchemaInv(n, r)
    BY <1>12, <1>13, SchemaSame DEF SameData
  <1>15. /\ r.rows = t.rows /\ r.ids = t.ids /\ r.constraints = t.constraints
         /\ r.columns = cols /\ r.indexes = auto \o own
    BY <1>9, <1>13 DEF SameData
  <1>16. cols = Marked(Reset(t.columns), t.constraints)
    BY DEF cols, reset, Reset
  <1>17. own = Own(t.indexes)
    BY <1>6 DEF own, Own
  <1>18. auto = AutomaticIndexes(n, r)
    BY <1>6, <1>15, AutoSame DEF auto
  <1>19. RefreshConstraintMetadata(n, t) = r
    BY <1>1 DEF r
  <1> QED BY <1>13, <1>14, <1>15, <1>16, <1>17, <1>18, <1>19 DEF TableInv

---------------------------------------------------------------------------
(* Indexes maintained one row at a time *)

IndexFields == {"columns", "unique", "bloom", "entries"}

\* The id is entered under the key, and the table has that row.
Entered(ix, k, id) == k \in DOMAIN ix.entries /\ id \in ix.entries[k]

HasRow(t, cols, k, id) == \E p \in Covered(t, cols) : KeyOf(t, p, cols) = k /\ t.ids[p] = id

\* An index whatever its table: a function to non-empty sets.
IsIndex(ix) ==
  /\ DOMAIN ix = IndexFields
  /\ ix.entries = [k \in DOMAIN ix.entries |-> ix.entries[k]]
  /\ DOMAIN ix.entries \subseteq ix.bloom
  /\ \A k \in DOMAIN ix.entries : \E id : id \in ix.entries[k]

\* A maintained index enters exactly the rows of its table.
LEMMA MaintainedMeans ==
  ASSUME NEW t, NEW ix, NEW def
  PROVE  Maintained(t, ix, def) <=>
           /\ IsIndex(ix) /\ ix.columns = def.columns /\ ix.unique = def.unique
           /\ \A k, id : Entered(ix, k, id) <=> HasRow(t, def.columns, k, id)
  <1>1. ASSUME Maintained(t, ix, def)
        PROVE  /\ IsIndex(ix) /\ ix.columns = def.columns /\ ix.unique = def.unique
               /\ \A k, id : Entered(ix, k, id) <=> HasRow(t, def.columns, k, id)
    <2>1. /\ DOMAIN ix = IndexFields /\ ix.columns = def.columns /\ ix.unique = def.unique
          /\ ix.entries = [k \in DOMAIN ix.entries |-> ix.entries[k]]
          /\ DOMAIN ix.entries \subseteq ix.bloom
      BY <1>1 DEF Maintained, IndexFields
    <2>2. ASSUME NEW k, NEW id PROVE Entered(ix, k, id) <=> HasRow(t, def.columns, k, id)
      BY <1>1 DEF Maintained, Entered, HasRow
    <2>3. ASSUME NEW k \in DOMAIN ix.entries PROVE \E id : id \in ix.entries[k]
      BY <1>1 DEF Maintained
    <2> QED BY <2>1, <2>2, <2>3 DEF IsIndex
  <1>2. ASSUME IsIndex(ix), ix.columns = def.columns, ix.unique = def.unique,
               \A k, id : Entered(ix, k, id) <=> HasRow(t, def.columns, k, id)
        PROVE  Maintained(t, ix, def)
    <2>1. ASSUME NEW k
          PROVE k \in DOMAIN ix.entries <=>
                  \E p \in Covered(t, def.columns) : KeyOf(t, p, def.columns) = k
      <3>1. k \in DOMAIN ix.entries <=> \E id : Entered(ix, k, id)
        BY <1>2 DEF IsIndex, Entered
      <3> QED BY <3>1, <1>2 DEF HasRow
    <2>2. ASSUME NEW k \in DOMAIN ix.entries, NEW id
          PROVE  id \in ix.entries[k] <=> HasRow(t, def.columns, k, id)
      BY <1>2 DEF Entered
    <2> QED BY <1>2, <2>1, <2>2 DEF Maintained, IsIndex, IndexFields, HasRow
  <1> QED BY <1>1, <1>2

\* AddEntry enters one id under one key.
LEMMA AddEntryFacts ==
  ASSUME NEW ix, IsIndex(ix), NEW key, NEW id
  PROVE  LET iy == AddEntry(ix, key, id) IN
         /\ IsIndex(iy) /\ iy.columns = ix.columns /\ iy.unique = ix.unique
         /\ \A k, j : Entered(iy, k, j) <=> Entered(ix, k, j) \/ (k = key /\ j = id)
  <1> DEFINE iy == AddEntry(ix, key, id)
             old(k) == IF k \in DOMAIN ix.entries THEN ix.entries[k] ELSE {}
             e == [k \in DOMAIN ix.entries \union {key} |->
                     old(k) \union (IF k = key THEN {id} ELSE {})]
  <1>1. /\ DOMAIN iy = IndexFields /\ iy.columns = ix.columns /\ iy.unique = ix.unique
        /\ iy.entries = e /\ iy.bloom = ix.bloom \union {key}
    BY DEF AddEntry, IsIndex, IndexFields
  <1> HIDE DEF iy
  <1>2. DOMAIN e = DOMAIN ix.entries \union {key}
    OBVIOUS
  <1>3. ASSUME NEW k, NEW j PROVE Entered(iy, k, j) <=> Entered(ix, k, j) \/ (k = key /\ j = id)
    BY <1>1, <1>2 DEF Entered
  <1>4. ASSUME NEW k \in DOMAIN e PROVE \E j : j \in e[k]
    <2>1. CASE k = key
      BY <2>1
    <2>2. CASE k # key
      BY <2>2 DEF IsIndex
    <2> QED BY <2>1, <2>2
  <1>5. e = [k \in DOMAIN e |-> e[k]]
    OBVIOUS
  <1>6. DOMAIN e \subseteq iy.bloom
    BY <1>1, <1>2 DEF IsIndex
  <1> HIDE DEF e
  <1>7. IsIndex(iy)
    BY <1>1, <1>4, <1>5, <1>6 DEF IsIndex
  <1> QED BY <1>1, <1>3, <1>7 DEF iy

\* RemoveEntry takes one id from one key.
LEMMA RemoveEntryFacts ==
  ASSUME NEW ix, IsIndex(ix), NEW key, NEW id
  PROVE  LET iy == RemoveEntry(ix, key, id) IN
         /\ IsIndex(iy) /\ iy.columns = ix.columns /\ iy.unique = ix.unique
         /\ \A k, j : Entered(iy, k, j) <=> Entered(ix, k, j) /\ ~(k = key /\ j = id)
  <1> DEFINE iy == RemoveEntry(ix, key, id)
             left == IF key \in DOMAIN ix.entries THEN ix.entries[key] \ {id} ELSE {}
             keys == IF left = {} THEN DOMAIN ix.entries \ {key} ELSE DOMAIN ix.entries
             e == [k \in keys |-> IF k = key THEN left ELSE ix.entries[k]]
  <1>1. /\ DOMAIN iy = IndexFields /\ iy.columns = ix.columns /\ iy.unique = ix.unique
        /\ iy.entries = e /\ iy.bloom = ix.bloom
    BY DEF RemoveEntry, IsIndex, IndexFields
  <1> HIDE DEF iy
  <1>2. DOMAIN e = keys /\ keys \subseteq DOMAIN ix.entries
    OBVIOUS
  <1>3. ASSUME NEW k, NEW j PROVE Entered(iy, k, j) <=> Entered(ix, k, j) /\ ~(k = key /\ j = id)
    <2>1. Entered(iy, k, j) <=> k \in keys /\ j \in (IF k = key THEN left ELSE ix.entries[k])
      BY <1>1 DEF Entered
    <2>2. CASE k = key
      <3>1. Entered(iy, k, j) <=> k \in keys /\ j \in left
        BY <2>1, <2>2
      <3>2. k \in keys /\ j \in left <=> j \in left
        BY <2>2
      <3>3. j \in left <=> k \in DOMAIN ix.entries /\ j \in ix.entries[k] /\ j # id
        BY <2>2
      <3> QED BY <2>2, <3>1, <3>2, <3>3 DEF Entered
    <2>3. CASE k # key
      <3>1. Entered(iy, k, j) <=> k \in keys /\ j \in ix.entries[k]
        BY <2>1, <2>3
      <3>2. k \in keys <=> k \in DOMAIN ix.entries
        BY <2>3
      <3> HIDE DEF keys
      <3> QED BY <2>3, <3>1, <3>2 DEF Entered
    <2> QED BY <2>2, <2>3
  <1>4. ASSUME NEW k \in DOMAIN e PROVE \E j : j \in e[k]
    <2>1. CASE k = key
      <3>1. left # {} /\ e[k] = left
        BY <1>2, <2>1
      <3> QED BY <3>1
    <2>2. CASE k # key
      BY <2>2 DEF IsIndex
    <2> QED BY <2>1, <2>2
  <1>5. e = [k \in DOMAIN e |-> e[k]]
    OBVIOUS
  <1>6. DOMAIN e \subseteq iy.bloom
    BY <1>1, <1>2 DEF IsIndex
  <1> HIDE DEF e
  <1>7. IsIndex(iy)
    BY <1>1, <1>4, <1>5, <1>6 DEF IsIndex
  <1> QED BY <1>1, <1>3, <1>7 DEF iy

\* A new row enters every index that covers it.
LEMMA AddMaintains ==
  ASSUME NEW t, NEW u, NEW ix, NEW def, Maintained(t, ix, def), NEW row, NEW id,
         IsSeq(t.rows), IsSeq(t.ids), Len(t.ids) = Len(t.rows), HasColumns(t, def.columns),
         u.columns = t.columns, u.rows = Append(t.rows, row), u.ids = Append(t.ids, id)
  PROVE  Maintained(u, AddEntry(ix, IndexKey(t, row, def.columns), id), def)
  <1> DEFINE cols == def.columns
             key == IndexKey(t, row, cols)
             iy == AddEntry(ix, key, id)
             N == Len(t.rows)
  <1>1. /\ N \in Nat /\ DOMAIN t.rows = 1..N /\ DOMAIN u.rows = 1..(N + 1)
        /\ \A p \in 1..N : u.rows[p] = t.rows[p] /\ u.ids[p] = t.ids[p]
        /\ u.rows[N + 1] = row /\ u.ids[N + 1] = id
    <2>1. /\ N \in Nat /\ DOMAIN t.rows = 1..N /\ DOMAIN u.rows = 1..(N + 1)
          /\ \A p \in 1..N : u.rows[p] = t.rows[p]
          /\ u.rows[N + 1] = row
      BY AppendFacts
    <2>2. (\A p \in 1..N : u.ids[p] = t.ids[p]) /\ u.ids[N + 1] = id
      BY AppendFacts
    <2> QED BY <2>1, <2>2
  <1>2. Covered(t, cols) = 1..N /\ Covered(u, cols) = 1..(N + 1)
    BY <1>1, SameKeys DEF Covered
  <1>3. /\ \A p \in 1..N : KeyOf(u, p, cols) = KeyOf(t, p, cols)
        /\ KeyOf(u, N + 1, cols) = key
    BY <1>1, SameKeys DEF KeyOf
  <1>4. /\ IsIndex(ix) /\ ix.columns = cols /\ ix.unique = def.unique
        /\ \A k, j : Entered(ix, k, j) <=> HasRow(t, cols, k, j)
    BY MaintainedMeans
  <1>5. /\ IsIndex(iy) /\ iy.columns = cols /\ iy.unique = def.unique
        /\ \A k, j : Entered(iy, k, j) <=> Entered(ix, k, j) \/ (k = key /\ j = id)
    BY <1>4, AddEntryFacts
  <1> HIDE DEF iy, key, cols, N
  <1>6. ASSUME NEW k, NEW j
        PROVE  HasRow(u, cols, k, j) <=> HasRow(t, cols, k, j) \/ (k = key /\ j = id)
    <2>1. HasRow(t, cols, k, j) <=> \E p \in 1..N : KeyOf(t, p, cols) = k /\ t.ids[p] = j
      BY <1>2 DEF HasRow
    <2>2. HasRow(u, cols, k, j) <=> \E p \in 1..(N + 1) : KeyOf(u, p, cols) = k /\ u.ids[p] = j
      BY <1>2 DEF HasRow
    <2>3. \A p : p \in 1..(N + 1) <=> p \in 1..N \/ p = N + 1
      BY <1>1
    <2> QED BY <2>1, <2>2, <2>3, <1>1, <1>3
  <1>7. Maintained(u, iy, def)
    BY <1>4, <1>5, <1>6, MaintainedMeans DEF cols
  <1> QED BY <1>7 DEF iy, key, cols

\* An index that does not cover the table has no entries, before and after.
LEMMA UncoveredMaintained ==
  ASSUME NEW t, NEW u, NEW ix, NEW def, Maintained(t, ix, def),
         ~HasColumns(t, def.columns), u.columns = t.columns
  PROVE  Maintained(u, ix, def)
  <1>1. Covered(t, def.columns) = {} /\ Covered(u, def.columns) = {}
    BY SameKeys DEF Covered
  <1> QED BY <1>1 DEF Maintained

\* A changed row moves from its old key to its new one.
LEMMA MoveMaintains ==
  ASSUME NEW t, NEW u, NEW ix, NEW def, Maintained(t, ix, def), NEW row, NEW p \in DOMAIN t.rows,
         \A q, r \in DOMAIN t.rows : t.ids[q] = t.ids[r] => q = r,
         HasColumns(t, def.columns), u.columns = t.columns,
         u.rows = [t.rows EXCEPT ![p] = row], u.ids = t.ids
  PROVE  Maintained(u, MoveEntry(ix, IndexKey(t, t.rows[p], def.columns),
                                 IndexKey(t, row, def.columns), t.ids[p]), def)
  <1> DEFINE cols == def.columns
             old == IndexKey(t, t.rows[p], cols)
             new == IndexKey(t, row, cols)
             id == t.ids[p]
             D == DOMAIN t.rows
             iy == MoveEntry(ix, old, new, id)
  <1>1. Covered(t, cols) = D /\ Covered(u, cols) = D
    BY SameKeys DEF Covered
  <1>2. /\ KeyOf(t, p, cols) = old /\ KeyOf(u, p, cols) = new
        /\ \A q \in D : q # p => KeyOf(u, q, cols) = KeyOf(t, q, cols)
    <2>1. u.rows[p] = row /\ \A q \in D : q # p => u.rows[q] = t.rows[q]
      OBVIOUS
    <2> QED BY <2>1, SameKeys DEF KeyOf
  <1>3. /\ IsIndex(ix) /\ ix.columns = cols /\ ix.unique = def.unique
        /\ \A k, j : Entered(ix, k, j) <=> HasRow(t, cols, k, j)
    BY MaintainedMeans
  <1>4. /\ IsIndex(iy) /\ iy.columns = cols /\ iy.unique = def.unique
        /\ \A k, j : Entered(iy, k, j) <=>
             (k = new /\ j = id) \/ (Entered(ix, k, j) /\ ~(k = old /\ j = id))
    <2>1. CASE old = new
      <3>1. iy = ix
        BY <2>1 DEF MoveEntry
      <3>2. Entered(ix, old, id)
        BY <1>1, <1>2, <1>3 DEF HasRow
      <3> HIDE DEF iy, old, new, id, cols
      <3> QED BY <2>1, <3>1, <3>2, <1>3
    <2>2. CASE old # new
      <3> DEFINE iz == RemoveEntry(ix, old, id)
      <3>1. iy = AddEntry(iz, new, id)
        BY <2>2 DEF MoveEntry
      <3> HIDE DEF iy, old, new, id, cols
      <3>2. /\ IsIndex(iz) /\ iz.columns = cols /\ iz.unique = def.unique
            /\ \A k, j : Entered(iz, k, j) <=> Entered(ix, k, j) /\ ~(k = old /\ j = id)
        BY <1>3, RemoveEntryFacts
      <3> HIDE DEF iz
      <3>3. /\ IsIndex(iy) /\ iy.columns = cols /\ iy.unique = def.unique
            /\ \A k, j : Entered(iy, k, j) <=> Entered(iz, k, j) \/ (k = new /\ j = id)
        BY <3>1, <3>2, AddEntryFacts
      <3> QED BY <3>2, <3>3
    <2> QED BY <2>1, <2>2
  <1>5. \A q \in D : t.ids[q] = id => q = p
    OBVIOUS
  <1> HIDE DEF iy, old, new, id, cols, D
  <1>6. ASSUME NEW k, NEW j
        PROVE  HasRow(u, cols, k, j) <=>
                 (k = new /\ j = id) \/ (HasRow(t, cols, k, j) /\ ~(k = old /\ j = id))
    <2>0. p \in D /\ t.ids[p] = id /\ u.ids = t.ids
      BY DEF D, id
    <2>1. HasRow(t, cols, k, j) <=> \E q \in D : KeyOf(t, q, cols) = k /\ t.ids[q] = j
      BY <1>1 DEF HasRow
    <2>2. HasRow(u, cols, k, j) <=> \E q \in D : KeyOf(u, q, cols) = k /\ t.ids[q] = j
      BY <1>1, <2>0 DEF HasRow
    <2>3. ASSUME HasRow(u, cols, k, j)
          PROVE  (k = new /\ j = id) \/ (HasRow(t, cols, k, j) /\ ~(k = old /\ j = id))
      <3>1. PICK q \in D : KeyOf(u, q, cols) = k /\ t.ids[q] = j
        BY <2>2, <2>3
      <3>2. CASE q = p
        BY <3>1, <3>2, <2>0, <1>2
      <3>3. CASE q # p
        BY <3>1, <3>3, <2>1, <1>2, <1>5
      <3> QED BY <3>2, <3>3
    <2>4. ASSUME k = new, j = id PROVE HasRow(u, cols, k, j)
      BY <2>0, <2>2, <2>4, <1>2
    <2>5. ASSUME HasRow(t, cols, k, j), ~(k = old /\ j = id) PROVE HasRow(u, cols, k, j)
      <3>1. PICK q \in D : KeyOf(t, q, cols) = k /\ t.ids[q] = j
        BY <2>1, <2>5
      <3>2. q # p
        BY <3>1, <2>0, <2>5, <1>2
      <3> QED BY <3>1, <3>2, <2>2, <1>2
    <2> QED BY <2>3, <2>4, <2>5
  <1>7. Maintained(u, iy, def)
    BY <1>3, <1>4, <1>6, MaintainedMeans DEF cols
  <1> QED BY <1>7 DEF iy, old, new, id, cols

---------------------------------------------------------------------------
(* INSERT *)

\* Ids tell rows apart.
LEMMA IdsDiffer ==
  ASSUME NEW t, RawInv(t)
  PROVE  /\ DOMAIN t.ids = DOMAIN t.rows /\ DOMAIN t.rows = 1..Len(t.rows) /\ Len(t.rows) \in Nat
         /\ \A q, r \in DOMAIN t.rows : t.ids[q] = t.ids[r] => q = r
  <1>1. /\ DOMAIN t.rows = 1..Len(t.rows) /\ Len(t.rows) \in Nat
        /\ DOMAIN t.ids = 1..Len(t.rows) /\ t.ids \in [1..Len(t.rows) -> Nat]
    BY SeqIsFunction DEF RawInv, Shape
  <1>2. \A q, r \in DOMAIN t.ids : q < r => t.ids[q] < t.ids[r]
    BY DEF RawInv, IdsInv
  <1>3. ASSUME NEW q \in 1..Len(t.rows), NEW r \in 1..Len(t.rows), t.ids[q] = t.ids[r]
        PROVE  q = r
    <2>1. t.ids[q] \in Nat /\ t.ids[r] \in Nat
      BY <1>1
    <2>2. ~(q < r) /\ ~(r < q)
      BY <1>1, <1>2, <1>3, <2>1
    <2> QED BY <2>2, <1>1
  <1> QED BY <1>1, <1>3

\* insert_row_indexed.
LEMMA InsertRowKeeps ==
  ASSUME NEW n, NEW t, TableInv(n, t), t.next <= MaxRowId, NEW row
  PROVE  /\ TableInv(n, InsertRowIndexed(t, row))
         /\ InsertRowIndexed(t, row).next = t.next + 1
  <1> DEFINE u == InsertRowIndexed(t, row)
             D == DOMAIN t.runtime
             x(name) == t.runtime[name]
             y(name) == IF HasColumns(t, x(name).columns)
                        THEN AddEntry(x(name), IndexKey(t, row, x(name).columns), t.next)
                        ELSE x(name)
  <1>0. RawInv(t) /\ IndexInv(t) /\ SchemaInv(n, t) /\ DOMAIN t = Fields
    BY DEF TableInv, RawInv, Shape
  <1>1. /\ DOMAIN u = Fields
        /\ u.columns = t.columns /\ u.constraints = t.constraints /\ u.indexes = t.indexes
        /\ u.rows = Append(t.rows, row) /\ u.ids = Append(t.ids, t.next)
        /\ u.next = t.next + 1
    BY <1>0 DEF Fields, InsertRowIndexed
  <1>2. u.runtime = [name \in D |-> y(name)]
    BY <1>0 DEF Fields, InsertRowIndexed
  <1> HIDE DEF u, y
  <1>3. /\ IsSeq(t.rows) /\ t.ids \in Seq(Nat) /\ IsSeq(t.ids) /\ t.next \in Nat
        /\ Len(t.ids) = Len(t.rows)
    BY <1>0 DEF RawInv, Shape, IsSeq
  <1>4. RawInv(u)
    <2>1. /\ Len(t.rows) \in Nat /\ IsSeq(u.rows) /\ Len(u.rows) = Len(t.rows) + 1
          /\ Len(u.ids) = Len(t.rows) + 1 /\ DOMAIN u.ids = 1..(Len(t.rows) + 1)
          /\ DOMAIN t.ids = 1..Len(t.rows)
          /\ \A i \in 1..Len(t.rows) : u.ids[i] = t.ids[i]
          /\ u.ids[Len(t.rows) + 1] = t.next
      BY <1>1, <1>3, AppendFacts
    <2>2. u.ids \in Seq(Nat)
      BY <1>1, <1>3
    <2>3. Shape(u)
      BY <1>0, <1>1, <1>3, <2>1, <2>2 DEF RawInv, Shape
    <2>4. \A p \in 1..Len(t.rows) : t.ids[p] < t.next /\ t.ids[p] <= MaxRowId /\ t.ids[p] \in Nat
      BY <1>0, <1>3, <2>1 DEF RawInv, IdsInv
    <2>5. \A p, q \in 1..Len(t.rows) : p < q => t.ids[p] < t.ids[q]
      BY <1>0, <2>1 DEF RawInv, IdsInv
    <2>6. \A p : p \in 1..(Len(t.rows) + 1) <=> p \in 1..Len(t.rows) \/ p = Len(t.rows) + 1
      BY <2>1
    <2>7. ASSUME NEW p \in DOMAIN u.ids PROVE u.ids[p] < u.next /\ u.ids[p] <= MaxRowId
      BY <2>1, <2>4, <2>6, <1>1, <1>3
    <2>8. ASSUME NEW p \in DOMAIN u.ids, NEW q \in DOMAIN u.ids, p < q
          PROVE  u.ids[p] < u.ids[q]
      <3>1. p \in 1..Len(t.rows)
        BY <2>1, <2>8
      <3>2. CASE q \in 1..Len(t.rows)
        BY <3>1, <3>2, <2>1, <2>5, <2>8
      <3>3. CASE q = Len(t.rows) + 1
        BY <3>1, <3>3, <2>1, <2>4
      <3> QED BY <3>2, <3>3, <2>1, <2>6
    <2>9. u.next > 0
      BY <1>1, <1>3
    <2> QED BY <2>3, <2>7, <2>8, <2>9 DEF RawInv, IdsInv
  <1>5. SchemaInv(n, u)
    BY <1>0, <1>1, SchemaSame
  <1>6. DOMAIN u.runtime = Names(u.indexes) /\ D = Names(t.indexes)
    BY <1>0, <1>1, <1>2 DEF IndexInv
  <1>7. ASSUME NEW name \in D PROVE Maintained(u, u.runtime[name], LastNamed(u, name))
    <2> DEFINE def == LastNamed(t, name)
    <2>1. LastNamed(u, name) = def
      BY <1>1, SameIndexes
    <2>2. Maintained(t, x(name), def) /\ x(name).columns = def.columns
      BY <1>0, <1>6 DEF IndexInv, Maintained
    <2> HIDE DEF def
    <2>3. u.runtime[name] = y(name)
      BY <1>2
    <2>4. CASE HasColumns(t, def.columns)
      <3>1. y(name) = AddEntry(x(name), IndexKey(t, row, def.columns), t.next)
        BY <2>2, <2>4 DEF y
      <3> QED BY <2>1, <2>2, <2>3, <2>4, <3>1, <1>1, <1>3, AddMaintains
    <2>5. CASE ~HasColumns(t, def.columns)
      <3>1. y(name) = x(name)
        BY <2>2, <2>5 DEF y
      <3> QED BY <2>1, <2>2, <2>3, <2>5, <3>1, <1>1, UncoveredMaintained
    <2> QED BY <2>4, <2>5
  <1>8. IndexInv(u)
    BY <1>6, <1>7, <1>1 DEF IndexInv
  <1> QED BY <1>1, <1>4, <1>5, <1>8 DEF TableInv, u

\* replace_row_indexed.
LEMMA ReplaceRowKeeps ==
  ASSUME NEW n, NEW t, TableInv(n, t), NEW p \in DOMAIN t.rows, NEW row
  PROVE  /\ TableInv(n, ReplaceRowIndexed(t, p, row))
         /\ ReplaceRowIndexed(t, p, row).next = t.next
  <1> DEFINE u == ReplaceRowIndexed(t, p, row)
             D == DOMAIN t.runtime
             x(name) == t.runtime[name]
             y(name) == IF HasColumns(t, x(name).columns)
                        THEN MoveEntry(x(name), IndexKey(t, t.rows[p], x(name).columns),
                                       IndexKey(t, row, x(name).columns), t.ids[p])
                        ELSE x(name)
  <1>0. RawInv(t) /\ IndexInv(t) /\ SchemaInv(n, t) /\ DOMAIN t = Fields
    BY DEF TableInv, RawInv, Shape
  <1>1. /\ DOMAIN u = Fields
        /\ u.columns = t.columns /\ u.constraints = t.constraints /\ u.indexes = t.indexes
        /\ u.rows = [t.rows EXCEPT ![p] = row] /\ u.ids = t.ids /\ u.next = t.next
    BY <1>0 DEF Fields, ReplaceRowIndexed
  <1>2. u.runtime = [name \in D |-> y(name)]
    BY <1>0 DEF Fields, ReplaceRowIndexed
  <1> HIDE DEF u, y
  <1>3. IsSeq(u.rows) /\ Len(u.rows) = Len(t.rows)
    <2>1. u.rows = [q \in DOMAIN t.rows |-> u.rows[q]] /\ IsSeq(t.rows)
      BY <1>0, <1>1 DEF RawInv, Shape
    <2> QED BY <2>1, MappedIsSeq
  <1>4. RawInv(u)
    BY <1>0, <1>1, <1>3 DEF RawInv, Shape, IdsInv
  <1>5. SchemaInv(n, u)
    BY <1>0, <1>1, SchemaSame
  <1>6. DOMAIN u.runtime = Names(u.indexes) /\ D = Names(t.indexes)
    BY <1>0, <1>1, <1>2 DEF IndexInv
  <1>7. ASSUME NEW name \in D PROVE Maintained(u, u.runtime[name], LastNamed(u, name))
    <2> DEFINE def == LastNamed(t, name)
    <2>1. LastNamed(u, name) = def
      BY <1>1, SameIndexes
    <2>2. Maintained(t, x(name), def) /\ x(name).columns = def.columns
      BY <1>0, <1>6 DEF IndexInv, Maintained
    <2> HIDE DEF def
    <2>3. u.runtime[name] = y(name)
      BY <1>2
    <2>4. CASE HasColumns(t, def.columns)
      <3>1. y(name) = MoveEntry(x(name), IndexKey(t, t.rows[p], def.columns),
                                IndexKey(t, row, def.columns), t.ids[p])
        BY <2>2, <2>4 DEF y
      <3>2. \A q, r \in DOMAIN t.rows : t.ids[q] = t.ids[r] => q = r
        BY <1>0, IdsDiffer
      <3>3. Maintained(u, y(name), def)
        BY <2>2, <2>4, <3>1, <3>2, <1>1, MoveMaintains
      <3> QED BY <2>1, <2>3, <3>3
    <2>5. CASE ~HasColumns(t, def.columns)
      <3>1. y(name) = x(name)
        BY <2>2, <2>5 DEF y
      <3> QED BY <2>1, <2>2, <2>3, <2>5, <3>1, <1>1, UncoveredMaintained
    <2> QED BY <2>4, <2>5
  <1>8. IndexInv(u)
    BY <1>6, <1>7, <1>1 DEF IndexInv
  <1> QED BY <1>1, <1>4, <1>5, <1>8 DEF TableInv, u

\* One row of an INSERT, as long as there is an id for it.
LEMMA InsertOneKeeps ==
  ASSUME NEW n, NEW s, DOMAIN s = {"ok", "table"}, TableInv(n, s.table), s.table.next <= MaxRowId,
         NEW row, NEW onDuplicate
  PROVE  LET r == InsertOne(s, row, onDuplicate) IN
         DOMAIN r = {"ok", "table"} /\ TableInv(n, r.table) /\ r.table.next <= s.table.next + 1
  <1> DEFINE t == s.table
             C == UniqueConflicts(t, row)
             p == CHOOSE q \in C : TRUE
             v == OnDuplicate(t, onDuplicate, t.rows[p], row)
             r == InsertOne(s, row, onDuplicate)
             a == InsertRowIndexed(t, row)
             b == ReplaceRowIndexed(t, p, v.row)
  <1>1. \/ r = Refuse(s) \/ r = s
        \/ r = [s EXCEPT !.table = a]
        \/ C # {} /\ r = [s EXCEPT !.table = b]
    BY DEF InsertOne
  <1>2. C \subseteq DOMAIN t.rows
    <2>1. C \subseteq DOMAIN t.ids
      BY DEF UniqueConflicts
    <2> QED BY <2>1, IdsDiffer DEF TableInv
  <1>3. C # {} => p \in DOMAIN t.rows
    BY <1>2
  <1>4. TableInv(n, a) /\ a.next = t.next + 1
    BY InsertRowKeeps
  <1>5. C # {} => TableInv(n, b) /\ b.next = t.next
    <2> HIDE DEF C, p, v
    <2> QED BY <1>3, ReplaceRowKeeps
  <1>6. t.next \in Nat
    BY DEF TableInv, RawInv, Shape
  <1> HIDE DEF C, a, b, r
  <1>7. CASE r = Refuse(s) \/ r = s
    BY <1>6, <1>7 DEF Refuse, r
  <1>8. CASE r = [s EXCEPT !.table = a]
    <2>1. DOMAIN r = {"ok", "table"} /\ r.table = a
      BY <1>8
    <2> QED BY <2>1, <1>4, <1>6 DEF r
  <1>9. CASE C # {} /\ r = [s EXCEPT !.table = b]
    <2>1. DOMAIN r = {"ok", "table"} /\ r.table = b
      BY <1>9
    <2> QED BY <2>1, <1>5, <1>6, <1>9 DEF r
  <1> QED BY <1>1, <1>7, <1>8, <1>9

\* The states of an INSERT statement exist, one after the other.
LEMMA InsertSteps ==
  ASSUME NEW t, NEW rows, IsSeq(rows), NEW onDuplicate
  PROVE  LET m == InsertStates(t, rows, onDuplicate) IN
         /\ m[0] = [ok |-> TRUE, table |-> t]
         /\ \A k \in 0..(Len(rows) - 1) :
              m[k + 1] = IF m[k].ok THEN InsertOne(m[k], rows[k + 1], onDuplicate) ELSE m[k]
  <1> DEFINE N == Len(rows)
             Step(r, i) == IF r.ok THEN InsertOne(r, rows[i], onDuplicate) ELSE r
             Body(g, i) == IF i = 0 THEN [ok |-> TRUE, table |-> t] ELSE Step(g[i - 1], i)
             m == CHOOSE g : g = [i \in 0..N |-> Body(g, i)]
             E == {k \in 0..N : \E g : g = [i \in 0..k |-> Body(g, i)]}
  <1>0. N \in Nat /\ 0 \in 0..N /\ N \in 0..N
    BY SeqIsFunction
  <1>1. InsertStates(t, rows, onDuplicate) = m
    BY DEF InsertStates
  <1>2. m = [i \in 0..N |-> Body(m, i)]
    <2> HIDE DEF Step
    <2>1. 0 \in E
      <3> DEFINE g == [i \in 0..0 |-> [ok |-> TRUE, table |-> t]]
      <3>1. g = [i \in 0..0 |-> Body(g, i)]
        OBVIOUS
      <3> QED BY <1>0, <3>1
    <2>2. ASSUME NEW k \in 0..(N - 1), k \in E PROVE k + 1 \in E
      <3>1. PICK g : g = [i \in 0..k |-> Body(g, i)]
        BY <2>2
      <3> DEFINE h == [i \in 0..(k + 1) |-> IF i = k + 1 THEN Step(g[k], k + 1) ELSE g[i]]
      <3>2. ASSUME NEW i \in 0..(k + 1) PROVE h[i] = Body(h, i)
        <4>1. CASE i = 0
          BY <3>1, <4>1, <1>0
        <4>2. CASE i \in 1..k
          <5>1. i \in 0..k /\ i - 1 \in 0..k /\ i - 1 # k + 1 /\ i # k + 1 /\ i # 0 /\ i - 1 \in 0..(k + 1)
            BY <4>2, <1>0
          <5>2. g[i] = Body(g, i)
            BY <3>1, <5>1
          <5>3. h[i] = g[i] /\ h[i - 1] = g[i - 1]
            BY <5>1
          <5> QED BY <5>1, <5>2, <5>3
        <4>3. CASE i = k + 1
          <5>1. i - 1 = k /\ k \in 0..(k + 1) /\ k # k + 1 /\ i # 0
            BY <4>3, <1>0
          <5>2. h[k] = g[k]
            BY <5>1
          <5> QED BY <4>3, <5>1, <5>2
        <4> QED BY <4>1, <4>2, <4>3, <1>0
      <3>3. h = [i \in 0..(k + 1) |-> Body(h, i)]
        <4>1. h = [i \in 0..(k + 1) |-> h[i]]
          OBVIOUS
        <4> HIDE DEF h, Body
        <4> QED BY <3>2, <4>1
      <3>4. k + 1 \in 0..N
        BY <1>0
      <3> HIDE DEF h, Body
      <3> QED BY <3>3, <3>4
    <2>3. N \in E
      <3> HIDE DEF E
      <3> QED BY <1>0, <2>1, <2>2, UpTo
    <2>4. \E g : g = [i \in 0..N |-> Body(g, i)]
      BY <2>3
    <2> HIDE DEF Body
    <2> QED BY <2>4
  <1> HIDE DEF m
  <1>3. m[0] = [ok |-> TRUE, table |-> t]
    BY <1>0, <1>2
  <1>4. ASSUME NEW k \in 0..(N - 1)
        PROVE  m[k + 1] = Step(m[k], k + 1)
    <2>1. k + 1 \in 0..N /\ k + 1 # 0 /\ (k + 1) - 1 = k
      BY <1>0
    <2> HIDE DEF Step
    <2> QED BY <1>2, <2>1
  <1> QED BY <1>1, <1>3, <1>4

\* Every state of an INSERT statement.
LEMMA InsertStatesKeep ==
  ASSUME NEW n, NEW t, TableInv(n, t), NEW rows, IsSeq(rows), NEW onDuplicate,
         t.next + Len(rows) <= MaxRowId
  PROVE  LET m == InsertStates(t, rows, onDuplicate) IN
         \A k \in 0..Len(rows) : /\ DOMAIN m[k] = {"ok", "table"} /\ TableInv(n, m[k].table)
                                /\ m[k].table.next <= MaxRowId
  <1> DEFINE N == Len(rows)
             m == InsertStates(t, rows, onDuplicate)
             S == {k \in 0..N : /\ DOMAIN m[k] = {"ok", "table"} /\ TableInv(n, m[k].table)
                                /\ m[k].table.next <= t.next + k}
  <1>0. N \in Nat /\ 0 \in 0..N /\ N \in 0..N
    BY SeqIsFunction
  <1>1. /\ m[0] = [ok |-> TRUE, table |-> t]
        /\ \A k \in 0..(N - 1) :
             m[k + 1] = IF m[k].ok THEN InsertOne(m[k], rows[k + 1], onDuplicate) ELSE m[k]
    BY InsertSteps
  <1> HIDE DEF m
  <1>3. t.next \in Nat /\ MaxRowId \in Nat
    BY CatalogAssumption DEF TableInv, RawInv, Shape
  <1>4. 0 \in S
    BY <1>0, <1>1, <1>3
  <1>5. ASSUME NEW k \in 0..(N - 1), k \in S PROVE k + 1 \in S
    <2>1. k + 1 \in 0..N /\ k + 1 # 0 /\ (k + 1) - 1 = k
      BY <1>0
    <2>2. m[k + 1] = IF m[k].ok THEN InsertOne(m[k], rows[k + 1], onDuplicate) ELSE m[k]
      BY <1>1
    <2>3. /\ DOMAIN m[k] = {"ok", "table"} /\ TableInv(n, m[k].table)
          /\ m[k].table.next <= t.next + k
      BY <1>5
    <2>4. m[k].table.next \in Nat
      BY <2>3 DEF TableInv, RawInv, Shape
    <2>5. m[k].table.next <= MaxRowId
      BY <1>0, <1>3, <2>3, <2>4
    <2> DEFINE r == InsertOne(m[k], rows[k + 1], onDuplicate)
    <2>6. DOMAIN r = {"ok", "table"} /\ TableInv(n, r.table) /\ r.table.next <= m[k].table.next + 1
      BY <2>3, <2>5, InsertOneKeeps
    <2>7. r.table.next \in Nat
      BY <2>6 DEF TableInv, RawInv, Shape
    <2> HIDE DEF r
    <2>8. CASE m[k + 1] = m[k]
      BY <2>1, <2>3, <2>4, <2>8, <1>3
    <2>9. CASE m[k + 1] = r
      <3>1. r.table.next <= t.next + (k + 1)
        BY <2>3, <2>4, <2>6, <2>7, <1>3
      <3> QED BY <2>1, <2>6, <2>9, <3>1
    <2> QED BY <2>2, <2>8, <2>9 DEF r
  <1>6. \A k \in 0..N : k \in S
    <2> HIDE DEF S
    <2> QED BY <1>0, <1>4, <1>5, UpTo
  <1>7. ASSUME NEW k \in 0..N
        PROVE  /\ DOMAIN m[k] = {"ok", "table"} /\ TableInv(n, m[k].table)
               /\ m[k].table.next <= MaxRowId
    <2>1. /\ DOMAIN m[k] = {"ok", "table"} /\ TableInv(n, m[k].table)
          /\ m[k].table.next <= t.next + k
      BY <1>6
    <2>2. m[k].table.next \in Nat
      BY <2>1 DEF TableInv, RawInv, Shape
    <2> QED BY <1>0, <1>3, <2>1, <2>2
  <1> QED BY <1>7 DEF m

\* Storing a table.
LEMMA StoreKeeps ==
  ASSUME NEW cat, CatInv(cat), NEW n, NEW t, TableInv(n, t)
  PROVE  CatInv(Store(cat, n, t))
  BY DEF CatInv, Store

\* execute_insert.
LEMMA InsertKeeps ==
  ASSUME NEW cat, CatInv(cat), NEW n \in DOMAIN cat, NEW cols, NEW values, IsSeq(values),
         NEW onDuplicate, cat[n].next + Len(values) <= MaxRowId
  PROVE  CatInv(ExecuteInsert(cat, n, cols, values, onDuplicate).tables)
  <1> DEFINE t == cat[n]
             rows == [i \in DOMAIN values |-> OrderedRow(t, cols, values[i])]
             s == InsertStates(t, rows, onDuplicate)[Len(rows)]
             u == Store(cat, n, s.table)
             r == ExecuteInsert(cat, n, cols, values, onDuplicate)
  <1>1. r.tables = cat \/ r.tables = u
    BY DEF ExecuteInsert, Result
  <1>2. IsSeq(rows) /\ Len(rows) = Len(values)
    <2>1. rows = [i \in DOMAIN values |-> rows[i]]
      OBVIOUS
    <2> HIDE DEF rows
    <2> QED BY <2>1, MappedIsSeq
  <1>3. TableInv(n, t)
    BY DEF CatInv
  <1>4. TableInv(n, s.table)
    <2> HIDE DEF rows
    <2>1. Len(rows) \in 0..Len(rows)
      BY <1>2, SeqIsFunction
    <2> QED BY <1>2, <1>3, <2>1, InsertStatesKeep
  <1>5. CatInv(u)
    <2> HIDE DEF s
    <2> QED BY <1>4, StoreKeeps
  <1> HIDE DEF r, u
  <1> QED BY <1>1, <1>5 DEF r

---------------------------------------------------------------------------
(* ALTER TABLE *)

StateFields == {"ok", "tables", "table"}

\* A state between two operations: the table is not stored yet, the others are
\* as they must be.
AlterInv(n, s) ==
  /\ DOMAIN s = StateFields
  /\ RawInv(s.table)
  /\ \A m \in DOMAIN s.tables : m # n => TableInv(m, s.tables[m])

\* A refused operation leaves the working copy.
LEMMA RefuseKeeps ==
  ASSUME NEW n, NEW s, AlterInv(n, s)
  PROVE  AlterInv(n, Refuse(s))
  BY DEF AlterInv, Refuse, StateFields

\* What an operation has to leave alone.
LEMMA Edited ==
  ASSUME NEW n, NEW s, AlterInv(n, s), NEW r, DOMAIN r = StateFields, r.tables = s.tables,
         DOMAIN r.table = Fields, IsColumns(r.table.columns), IsSeq(r.table.constraints),
         IsSeq(r.table.indexes), IsSeq(r.table.rows), Len(r.table.rows) = Len(s.table.rows),
         r.table.ids = s.table.ids, r.table.next = s.table.next
  PROVE  AlterInv(n, r)
  <1>1. RawInv(r.table)
    BY DEF AlterInv, RawInv, Shape, IdsInv
  <1> QED BY <1>1 DEF AlterInv

\* What the proofs of the operations take from AlterInv.
LEMMA AlterParts ==
  ASSUME NEW n, NEW s, AlterInv(n, s)
  PROVE  /\ DOMAIN s = StateFields /\ DOMAIN s.table = Fields
         /\ IsColumns(s.table.columns) /\ IsSeq(s.table.columns) /\ IsSeq(s.table.constraints)
         /\ IsSeq(s.table.indexes) /\ IsSeq(s.table.rows)
  BY DEF AlterInv, RawInv, Shape, IsColumns

\* Columns and rows edited in place.
LEMMA ColumnsEdited ==
  ASSUME NEW c, IsColumns(c), NEW d, d = [i \in DOMAIN c |-> d[i]],
         \A i \in DOMAIN c : DOMAIN d[i] = ColumnFields
  PROVE  IsColumns(d)
  <1>1. IsSeq(d)
    BY MappedIsSeq DEF IsColumns
  <1>2. DOMAIN d = DOMAIN c
    OBVIOUS
  <1> QED BY <1>1, <1>2 DEF IsColumns

\* ADD COLUMN.
LEMMA AddColumnKeeps ==
  ASSUME NEW n, NEW s, AlterInv(n, s), NEW op, DOMAIN op.def.column = ColumnFields,
         IsSeq(op.def.constraints)
  PROVE  AlterInv(n, AddColumn(s, op))
  <1> DEFINE c == op.def.column
             v == CoerceTo(c.default, c.type)
             rows == [p \in DOMAIN s.table.rows |-> Append(s.table.rows[p], v)]
             r == [s EXCEPT !.table.rows = [p \in DOMAIN @ |-> Append(@[p], v)],
                            !.table.columns = Append(@, c),
                            !.table.constraints = @ \o op.def.constraints]
             t == s.table
  <1>1. AddColumn(s, op) \in {s, Refuse(s), r}
    BY DEF AddColumn
  <1>2. DOMAIN s = StateFields /\ DOMAIN s.table = Fields
    BY AlterParts
  <1> HIDE DEF v
  <1>3. /\ DOMAIN r = StateFields /\ r.tables = s.tables /\ DOMAIN r.table = Fields
        /\ r.table.columns = Append(t.columns, c) /\ r.table.constraints = t.constraints \o op.def.constraints
        /\ r.table.rows = rows /\ r.table.indexes = t.indexes
        /\ r.table.ids = t.ids /\ r.table.next = t.next
    BY <1>2 DEF StateFields, Fields
  <1>4. IsColumns(Append(t.columns, c))
    <2>1. IsColumns(t.columns) /\ IsSeq(t.columns)
      BY AlterParts
    <2>2. /\ IsSeq(Append(t.columns, c)) /\ Len(t.columns) \in Nat
          /\ DOMAIN t.columns = 1..Len(t.columns)
          /\ DOMAIN Append(t.columns, c) = 1..(Len(t.columns) + 1)
          /\ \A i \in 1..Len(t.columns) : Append(t.columns, c)[i] = t.columns[i]
          /\ Append(t.columns, c)[Len(t.columns) + 1] = c
      BY <2>1, AppendFacts
    <2>3. \A i : i \in 1..(Len(t.columns) + 1) <=> i \in 1..Len(t.columns) \/ i = Len(t.columns) + 1
      BY <2>2
    <2> QED BY <2>1, <2>2, <2>3 DEF IsColumns
  <1>5. IsSeq(t.constraints \o op.def.constraints)
    BY AlterParts, ConcatFacts
  <1>6. IsSeq(rows) /\ Len(rows) = Len(t.rows)
    <2>1. rows = [p \in DOMAIN t.rows |-> rows[p]]
      OBVIOUS
    <2> HIDE DEF rows
    <2> QED BY <2>1, AlterParts, MappedIsSeq
  <1> HIDE DEF r, rows
  <1>7. AlterInv(n, r)
    BY <1>3, <1>4, <1>5, <1>6, AlterParts, Edited
  <1> QED BY <1>1, <1>7, RefuseKeeps

\* DROP COLUMN.
LEMMA DropColumnKeeps ==
  ASSUME NEW n, NEW s, AlterInv(n, s), NEW op
  PROVE  AlterInv(n, DropColumn(s, n, op))
  <1> DEFINE t == s.table
             pos == ColumnIndex(t, op.col)
             rows == [p \in DOMAIN s.table.rows |-> RemoveAt(s.table.rows[p], pos)]
             r == [s EXCEPT !.table.columns = RemoveAt(@, pos),
                            !.table.rows = [p \in DOMAIN @ |-> RemoveAt(@[p], pos)]]
  <1>1. DropColumn(s, n, op) \in {s, Refuse(s)} \/ (HasColumn(t, op.col) /\ DropColumn(s, n, op) = r)
    BY DEF DropColumn
  <1>2. DOMAIN s = StateFields /\ DOMAIN s.table = Fields
    BY AlterParts
  <1>3. HasColumn(t, op.col) => pos \in DOMAIN t.columns
    BY DEF HasColumn, Names, ColumnIndex
  <1> HIDE DEF pos
  <1>4. /\ DOMAIN r = StateFields /\ r.tables = s.tables /\ DOMAIN r.table = Fields
        /\ r.table.columns = RemoveAt(t.columns, pos) /\ r.table.constraints = t.constraints
        /\ r.table.rows = rows /\ r.table.indexes = t.indexes
        /\ r.table.ids = t.ids /\ r.table.next = t.next
    BY <1>2 DEF StateFields, Fields
  <1>5. ASSUME pos \in DOMAIN t.columns PROVE IsColumns(RemoveAt(t.columns, pos))
    <2>1. IsColumns(t.columns) /\ IsSeq(t.columns)
      BY AlterParts
    <2> DEFINE d == RemoveAt(t.columns, pos)
    <2>2. /\ IsSeq(d) /\ DOMAIN d = 1..(Len(t.columns) - 1)
          /\ \A i \in 1..(Len(t.columns) - 1) : d[i] = t.columns[IF i < pos THEN i ELSE i + 1]
      BY <1>5, <2>1, RemoveAtFacts
    <2>3. Len(t.columns) \in Nat /\ DOMAIN t.columns = 1..Len(t.columns)
      BY <2>1, SeqIsFunction
    <2> HIDE DEF d
    <2>4. \A i \in 1..(Len(t.columns) - 1) : (IF i < pos THEN i ELSE i + 1) \in DOMAIN t.columns
      BY <2>3
    <2>5. \A i \in DOMAIN d : DOMAIN d[i] = ColumnFields
      BY <2>1, <2>2, <2>4 DEF IsColumns
    <2>6. IsColumns(d)
      BY <2>2, <2>5 DEF IsColumns
    <2> QED BY <2>6 DEF d
  <1>6. IsSeq(rows) /\ Len(rows) = Len(t.rows)
    <2>1. rows = [p \in DOMAIN t.rows |-> rows[p]]
      OBVIOUS
    <2> HIDE DEF rows
    <2> QED BY <2>1, AlterParts, MappedIsSeq
  <1> HIDE DEF r, rows
  <1>7. pos \in DOMAIN t.columns => AlterInv(n, r)
    BY <1>4, <1>5, <1>6, AlterParts, Edited
  <1> QED BY <1>1, <1>3, <1>7, RefuseKeeps

\* Renaming a column in constraints and indexes.
LEMMA RenameReferences ==
  ASSUME NEW n, NEW t, DOMAIN t = Fields, IsSeq(t.constraints), IsSeq(t.indexes), NEW old, NEW new
  PROVE  LET u == RenameSchemaReferences(n, t, old, new) IN
         /\ DOMAIN u = Fields /\ IsSeq(u.constraints) /\ IsSeq(u.indexes)
         /\ u.columns = t.columns /\ u.rows = t.rows /\ u.ids = t.ids /\ u.next = t.next
  <1> DEFINE u == RenameSchemaReferences(n, t, old, new)
  <1>1. /\ DOMAIN u = Fields /\ u.columns = t.columns /\ u.rows = t.rows
        /\ u.ids = t.ids /\ u.next = t.next
    BY DEF RenameSchemaReferences, Fields
  <1>2. /\ u.constraints = [i \in DOMAIN t.constraints |-> u.constraints[i]]
        /\ u.indexes = [i \in DOMAIN t.indexes |-> u.indexes[i]]
    BY DEF RenameSchemaReferences, Fields
  <1> HIDE DEF u
  <1>3. IsSeq(u.constraints) /\ IsSeq(u.indexes)
    BY <1>2, MappedIsSeq
  <1> QED BY <1>1, <1>3 DEF u

\* Other tables, refreshed when a foreign key of theirs follows the column.
LEMMA RenameInbound ==
  ASSUME NEW n, NEW cat, \A m \in DOMAIN cat : m # n => TableInv(m, cat[m]), NEW old, NEW new
  PROVE  LET c == RenameInboundReferences(cat, n, old, new) IN
         \A m \in DOMAIN c : m # n => TableInv(m, c[m])
  <1> DEFINE c == RenameInboundReferences(cat, n, old, new)
             follow(d) == IF d.kind = "ForeignKey" /\ d.table = n
                          THEN [d EXCEPT !.referred = Rename(@, old, new)] ELSE d
             edited(m) == [cat[m] EXCEPT !.constraints = [i \in DOMAIN @ |-> follow(@[i])]]
  <1>1. DOMAIN c = DOMAIN cat
    BY DEF RenameInboundReferences
  <1>2. SUFFICES ASSUME NEW m \in DOMAIN cat, m # n PROVE TableInv(m, c[m])
    BY <1>1
  <1>3. c[m] = cat[m] \/ c[m] = RefreshConstraintMetadata(m, edited(m))
    BY <1>2 DEF RenameInboundReferences
  <1> DEFINE t == cat[m]
             u == edited(m)
  <1>4. TableInv(m, t) /\ RawInv(t) /\ DOMAIN t = Fields
    BY <1>2 DEF TableInv, RawInv, Shape
  <1>5. /\ DOMAIN u = Fields /\ u.columns = t.columns /\ u.rows = t.rows /\ u.indexes = t.indexes
        /\ u.ids = t.ids /\ u.next = t.next
        /\ u.constraints = [i \in DOMAIN t.constraints |-> u.constraints[i]]
    BY <1>4 DEF Fields
  <1> HIDE DEF u, t
  <1>6. IsSeq(u.constraints)
    BY <1>4, <1>5, MappedIsSeq DEF RawInv, Shape
  <1>7. RawInv(u)
    BY <1>4, <1>5, <1>6 DEF RawInv, Shape, IdsInv
  <1>8. TableInv(m, RefreshConstraintMetadata(m, u))
    BY <1>7, RefreshFacts
  <1> QED BY <1>3, <1>4, <1>8 DEF u, t

(* RENAME COLUMN keeps what holds between ALTER operations.                 *)
LEMMA RenameColumnKeeps ==
  ASSUME NEW n, NEW s, AlterInv(n, s), NEW op
  PROVE  AlterInv(n, RenameColumn(s, n, op))
  <1> DEFINE t == s.table
             pos == ColumnIndex(t, op.col)
             a == [t EXCEPT !.columns[pos].name = op.new]
             u == RenameSchemaReferences(n, a, op.col, op.new)
             c == RenameInboundReferences(s.tables, n, op.col, op.new)
             r == [s EXCEPT !.table = u, !.tables = c]
  <1>1. RenameColumn(s, n, op) \in {Refuse(s), r}
    BY DEF RenameColumn
  <1>2. /\ DOMAIN s = StateFields /\ DOMAIN t = Fields /\ IsColumns(t.columns)
        /\ IsSeq(t.constraints) /\ IsSeq(t.indexes)
    BY AlterParts
  <1> HIDE DEF pos
  <1>3. /\ DOMAIN a = Fields /\ a.constraints = t.constraints /\ a.indexes = t.indexes
        /\ a.rows = t.rows /\ a.ids = t.ids /\ a.next = t.next
        /\ a.columns = [t.columns EXCEPT ![pos] = [@ EXCEPT !.name = op.new]]
    BY <1>2 DEF Fields
  <1>4. IsColumns(a.columns)
    <2>1. a.columns = [i \in DOMAIN t.columns |-> a.columns[i]]
      BY <1>3
    <2>2. \A i \in DOMAIN t.columns : DOMAIN a.columns[i] = ColumnFields
      BY <1>2, <1>3 DEF IsColumns
    <2> HIDE DEF a
    <2> QED BY <1>2, <2>1, <2>2, ColumnsEdited
  <1> HIDE DEF a
  <1>5. /\ DOMAIN u = Fields /\ IsSeq(u.constraints) /\ IsSeq(u.indexes)
        /\ u.columns = a.columns /\ u.rows = t.rows /\ u.ids = t.ids /\ u.next = t.next
    BY <1>2, <1>3, RenameReferences
  <1>6. \A m \in DOMAIN c : m # n => TableInv(m, c[m])
    BY RenameInbound DEF AlterInv
  <1> HIDE DEF u, c
  <1>7. DOMAIN r = StateFields /\ r.table = u /\ r.tables = c
    BY <1>2 DEF StateFields
  <1>8. RawInv(u)
    BY <1>4, <1>5 DEF AlterInv, RawInv, Shape, IdsInv
  <1> HIDE DEF r
  <1>9. AlterInv(n, r)
    BY <1>6, <1>7, <1>8 DEF AlterInv
  <1> QED BY <1>1, <1>9, RefuseKeeps

\* Converting one column keeps the rows.
LEMMA ConvertKeeps ==
  ASSUME NEW rows, IsSeq(rows), NEW pos, NEW type
  PROVE  IsSeq(ConvertColumn(rows, pos, type)) /\ Len(ConvertColumn(rows, pos, type)) = Len(rows)
  <1> DEFINE f == ConvertColumn(rows, pos, type)
  <1>1. f = [p \in DOMAIN rows |-> f[p]]
    BY DEF ConvertColumn
  <1> HIDE DEF f
  <1>2. IsSeq(f) /\ Len(f) = Len(rows)
    BY <1>1, MappedIsSeq
  <1> QED BY <1>2 DEF f

\* MODIFY and CHANGE COLUMN.
LEMMA ModifyColumnKeeps ==
  ASSUME NEW n, NEW s, AlterInv(n, s), NEW op, DOMAIN op.def.column = ColumnFields,
         IsSeq(op.def.constraints)
  PROVE  AlterInv(n, ModifyColumn(s, n, op))
  <1> DEFINE c == op.def.column
             pos == ColumnIndex(s.table, op.col)
             t == IF op.col = c.name THEN s.table
                  ELSE RenameSchemaReferences(n, s.table, op.col, c.name)
             K == {i \in DOMAIN op.def.constraints :
                     ~\E e \in Range(t.constraints)
                                \union {op.def.constraints[j] : j \in 1..(i - 1)} :
                        /\ e.kind = op.def.constraints[i].kind
                        /\ e.columns = op.def.constraints[i].columns}
             fresh == At(op.def.constraints, K)
             u == [t EXCEPT !.rows = ConvertColumn(@, pos, c.type),
                            !.columns[pos] = c,
                            !.constraints = @ \o fresh]
             r == [s EXCEPT !.table = u]
  <1>1. ModifyColumn(s, n, op) \in {Refuse(s), r}
    BY DEF ModifyColumn
  <1>2. /\ DOMAIN s = StateFields /\ DOMAIN s.table = Fields /\ IsColumns(s.table.columns)
        /\ IsSeq(s.table.constraints) /\ IsSeq(s.table.indexes) /\ IsSeq(s.table.rows)
    BY AlterParts
  <1>3. /\ DOMAIN t = Fields /\ IsSeq(t.constraints) /\ IsSeq(t.indexes)
        /\ t.columns = s.table.columns /\ t.rows = s.table.rows
        /\ t.ids = s.table.ids /\ t.next = s.table.next
    <2>1. CASE op.col = c.name
      BY <1>2, <2>1
    <2>2. CASE op.col # c.name
      <3>1. t = RenameSchemaReferences(n, s.table, op.col, c.name)
        BY <2>2
      <3> HIDE DEF t
      <3> QED BY <1>2, <3>1, RenameReferences
    <2> QED BY <2>1, <2>2
  <1>4. IsSeq(fresh)
    <2>1. K \subseteq DOMAIN op.def.constraints
      OBVIOUS
    <2> HIDE DEF K
    <2> QED BY <2>1, Positions
  <1> HIDE DEF pos, t, fresh, c
  <1>5. /\ DOMAIN u = Fields /\ u.indexes = t.indexes /\ u.ids = t.ids /\ u.next = t.next
        /\ u.rows = ConvertColumn(t.rows, pos, c.type)
        /\ u.columns = [t.columns EXCEPT ![pos] = c]
        /\ u.constraints = t.constraints \o fresh
    BY <1>3 DEF Fields
  <1>6. IsColumns(u.columns)
    <2>1. u.columns = [i \in DOMAIN t.columns |-> u.columns[i]]
      BY <1>5
    <2>2. \A i \in DOMAIN t.columns : DOMAIN u.columns[i] = ColumnFields
      BY <1>2, <1>3, <1>5 DEF IsColumns, c
    <2> HIDE DEF u
    <2> QED BY <1>2, <1>3, <2>1, <2>2, ColumnsEdited
  <1> HIDE DEF u
  <1>7. IsSeq(u.rows) /\ Len(u.rows) = Len(s.table.rows)
    BY <1>2, <1>3, <1>5, ConvertKeeps
  <1>8. IsSeq(u.constraints)
    BY <1>3, <1>4, <1>5, ConcatFacts
  <1>9. DOMAIN r = StateFields /\ r.table = u /\ r.tables = s.tables
    BY <1>2 DEF StateFields
  <1> HIDE DEF r
  <1>10. AlterInv(n, r)
    BY <1>3, <1>5, <1>6, <1>7, <1>8, <1>9, Edited
  <1> QED BY <1>1, <1>10, RefuseKeeps

\* SET and DROP DEFAULT.
LEMMA SetDefaultKeeps ==
  ASSUME NEW n, NEW s, AlterInv(n, s), NEW op
  PROVE  AlterInv(n, SetDefault(s, op))
  <1> DEFINE t == s.table
             pos == ColumnIndex(t, op.col)
             v == CoerceTo(op.val, t.columns[pos].type)
             r == [s EXCEPT !.table.columns[pos].default = v]
  <1>1. SetDefault(s, op) \in {Refuse(s), r}
    BY DEF SetDefault
  <1>2. DOMAIN s = StateFields /\ DOMAIN t = Fields /\ IsColumns(t.columns)
    BY AlterParts
  <1> HIDE DEF pos, v
  <1>3. /\ DOMAIN r = StateFields /\ r.tables = s.tables /\ DOMAIN r.table = Fields
        /\ r.table.columns = [t.columns EXCEPT ![pos] = [@ EXCEPT !.default = v]]
        /\ r.table.constraints = t.constraints /\ r.table.indexes = t.indexes
        /\ r.table.rows = t.rows /\ r.table.ids = t.ids /\ r.table.next = t.next
    BY <1>2 DEF StateFields, Fields
  <1> HIDE DEF r
  <1>4. IsColumns(r.table.columns)
    <2>1. r.table.columns = [i \in DOMAIN t.columns |-> r.table.columns[i]]
      BY <1>3
    <2>2. \A i \in DOMAIN t.columns : DOMAIN r.table.columns[i] = ColumnFields
      BY <1>2, <1>3 DEF IsColumns
    <2> QED BY <1>2, <2>1, <2>2, ColumnsEdited
  <1>5. AlterInv(n, r)
    BY <1>3, <1>4, AlterParts, Edited
  <1> QED BY <1>1, <1>5, RefuseKeeps

\* SET and DROP NOT NULL.
LEMMA SetNullableKeeps ==
  ASSUME NEW n, NEW s, AlterInv(n, s), NEW op
  PROVE  AlterInv(n, SetNullable(s, op))
  <1> DEFINE t == s.table
             pos == ColumnIndex(t, op.col)
             r == [s EXCEPT !.table.columns[pos].nullable = op.nullable]
  <1>1. SetNullable(s, op) \in {Refuse(s), r}
    BY DEF SetNullable
  <1>2. DOMAIN s = StateFields /\ DOMAIN t = Fields /\ IsColumns(t.columns)
    BY AlterParts
  <1> HIDE DEF pos
  <1>3. /\ DOMAIN r = StateFields /\ r.tables = s.tables /\ DOMAIN r.table = Fields
        /\ r.table.columns = [t.columns EXCEPT ![pos] = [@ EXCEPT !.nullable = op.nullable]]
        /\ r.table.constraints = t.constraints /\ r.table.indexes = t.indexes
        /\ r.table.rows = t.rows /\ r.table.ids = t.ids /\ r.table.next = t.next
    BY <1>2 DEF StateFields, Fields
  <1> HIDE DEF r
  <1>4. IsColumns(r.table.columns)
    <2>1. r.table.columns = [i \in DOMAIN t.columns |-> r.table.columns[i]]
      BY <1>3
    <2>2. \A i \in DOMAIN t.columns : DOMAIN r.table.columns[i] = ColumnFields
      BY <1>2, <1>3 DEF IsColumns
    <2> QED BY <1>2, <2>1, <2>2, ColumnsEdited
  <1>5. AlterInv(n, r)
    BY <1>3, <1>4, AlterParts, Edited
  <1> QED BY <1>1, <1>5, RefuseKeeps

\* SET DATA TYPE.
LEMMA SetDataTypeKeeps ==
  ASSUME NEW n, NEW s, AlterInv(n, s), NEW op
  PROVE  AlterInv(n, SetDataType(s, op))
  <1> DEFINE t == s.table
             pos == ColumnIndex(t, op.col)
             r == [s EXCEPT !.table.rows = ConvertColumn(@, pos, op.type),
                            !.table.columns[pos].default = CoerceTo(@, op.type),
                            !.table.columns[pos].type = op.type]
  <1>1. SetDataType(s, op) \in {Refuse(s), r}
    BY DEF SetDataType
  <1>2. DOMAIN s = StateFields /\ DOMAIN t = Fields /\ IsColumns(t.columns)
    BY AlterParts
  <1> HIDE DEF pos
  <1>3. /\ DOMAIN r = StateFields /\ r.tables = s.tables /\ DOMAIN r.table = Fields
        /\ r.table.constraints = t.constraints /\ r.table.indexes = t.indexes
        /\ r.table.ids = t.ids /\ r.table.next = t.next
    BY <1>2 DEF StateFields, Fields
  <1>4. r.table.rows = ConvertColumn(t.rows, pos, op.type)
    BY <1>2 DEF StateFields, Fields
  <1>5. /\ r.table.columns = [i \in DOMAIN t.columns |-> r.table.columns[i]]
        /\ \A i \in DOMAIN t.columns : DOMAIN r.table.columns[i] = ColumnFields
    BY <1>2 DEF StateFields, Fields, IsColumns
  <1> HIDE DEF r
  <1>6. IsColumns(r.table.columns)
    BY <1>2, <1>5, ColumnsEdited
  <1>7. IsSeq(r.table.rows) /\ Len(r.table.rows) = Len(t.rows)
    BY <1>4, AlterParts, ConvertKeeps
  <1>8. AlterInv(n, r)
    BY <1>3, <1>6, <1>7, AlterParts, Edited
  <1> QED BY <1>1, <1>8, RefuseKeeps

(* ADD CONSTRAINT keeps what holds between ALTER operations.                *)
LEMMA AddConstraintKeeps ==
  ASSUME NEW n, NEW s, AlterInv(n, s), NEW op
  PROVE  AlterInv(n, AddConstraint(s, op))
  <1> DEFINE t == s.table
             r == [s EXCEPT !.table.constraints = Append(@, op.constraint)]
  <1>1. AddConstraint(s, op) \in {Refuse(s), r}
    BY DEF AddConstraint
  <1>2. DOMAIN s = StateFields /\ DOMAIN t = Fields
    BY AlterParts
  <1>3. /\ DOMAIN r = StateFields /\ r.tables = s.tables /\ DOMAIN r.table = Fields
        /\ r.table.constraints = Append(t.constraints, op.constraint)
        /\ r.table.columns = t.columns /\ r.table.indexes = t.indexes
        /\ r.table.rows = t.rows /\ r.table.ids = t.ids /\ r.table.next = t.next
    BY <1>2 DEF StateFields, Fields
  <1> HIDE DEF r
  <1>4. IsSeq(r.table.constraints)
    BY <1>3, AlterParts, AppendFacts
  <1>5. AlterInv(n, r)
    BY <1>3, <1>4, AlterParts, Edited
  <1> QED BY <1>1, <1>5, RefuseKeeps

\* DROP CONSTRAINT and DROP PRIMARY KEY.
LEMMA DropFirstKeeps ==
  ASSUME NEW n, NEW s, AlterInv(n, s), NEW fits, fits \subseteq DOMAIN s.table.constraints,
         NEW op
  PROVE  AlterInv(n, DropFirst(s, fits, op.lenient)) /\ AlterInv(n, DropFirst(s, fits, FALSE))
  <1> DEFINE t == s.table
             pos == CHOOSE i \in fits : \A j \in fits : i <= j
             r == [s EXCEPT !.table.constraints = RemoveAt(@, pos)]
  <1>1. /\ \/ DropFirst(s, fits, op.lenient) \in {s, Refuse(s)}
           \/ fits # {} /\ DropFirst(s, fits, op.lenient) = r
        /\ \/ DropFirst(s, fits, FALSE) \in {s, Refuse(s)}
           \/ fits # {} /\ DropFirst(s, fits, FALSE) = r
    BY DEF DropFirst
  <1>2. DOMAIN s = StateFields /\ DOMAIN t = Fields /\ IsSeq(t.constraints)
    BY AlterParts
  <1>3. fits # {} => pos \in DOMAIN t.constraints
    <2>1. fits \subseteq Nat
      BY <1>2, SeqIsFunction
    <2>2. fits # {} => \E i \in fits : \A j \in fits : i <= j
      BY <2>1, LeastNumber
    <2> QED BY <2>2
  <1> HIDE DEF pos
  <1>4. /\ DOMAIN r = StateFields /\ r.tables = s.tables /\ DOMAIN r.table = Fields
        /\ r.table.constraints = RemoveAt(t.constraints, pos)
        /\ r.table.columns = t.columns /\ r.table.indexes = t.indexes
        /\ r.table.rows = t.rows /\ r.table.ids = t.ids /\ r.table.next = t.next
    BY <1>2 DEF StateFields, Fields
  <1> HIDE DEF r
  <1>5. fits # {} => IsSeq(r.table.constraints)
    BY <1>2, <1>3, <1>4, RemoveAtFacts
  <1>6. fits # {} => AlterInv(n, r)
    BY <1>4, <1>5, AlterParts, Edited
  <1> QED BY <1>1, <1>6, RefuseKeeps

\* A column definition of ADD or MODIFY COLUMN.
LEMMA ColumnWithConstraints ==
  ASSUME NEW op, IsAlterOperation(op), op.kind \in {"AddColumn", "ModifyColumn"}
  PROVE  DOMAIN op.def.column = ColumnFields /\ IsSeq(op.def.constraints)
  BY DEF IsAlterOperation, IsColumnWithConstraints, IsColumnDef, IsSeq

\* apply_alter_operation.
LEMMA ApplyKeeps ==
  ASSUME NEW n, NEW s, AlterInv(n, s), NEW op, IsAlterOperation(op)
  PROVE  AlterInv(n, ApplyAlterOperation(n, s, op))
  <1> DEFINE r == CASE op.kind = "AddColumn"      -> AddColumn(s, op)
                    [] op.kind = "DropColumn"     -> DropColumn(s, n, op)
                    [] op.kind = "RenameColumn"   -> RenameColumn(s, n, op)
                    [] op.kind = "ModifyColumn"   -> ModifyColumn(s, n, op)
                    [] op.kind = "SetDefault"     -> SetDefault(s, op)
                    [] op.kind = "SetNullable"    -> SetNullable(s, op)
                    [] op.kind = "SetDataType"    -> SetDataType(s, op)
                    [] op.kind = "AddConstraint"  -> AddConstraint(s, op)
                    [] op.kind = "DropConstraint" -> DropConstraint(s, n, op)
                    [] op.kind = "DropPrimaryKey" -> DropPrimaryKey(s)
             u == RefreshConstraintMetadata(n, r.table)
             a == [r EXCEPT !.table = u]
  <1>1. ApplyAlterOperation(n, s, op) = IF r.ok THEN a ELSE r
    BY DEF ApplyAlterOperation
  <1>2. AlterInv(n, r)
    <2>1. CASE op.kind = "AddColumn"
      BY <2>1, AddColumnKeeps, ColumnWithConstraints
    <2>2. CASE op.kind = "DropColumn"
      BY <2>2, DropColumnKeeps
    <2>3. CASE op.kind = "RenameColumn"
      BY <2>3, RenameColumnKeeps
    <2>4. CASE op.kind = "ModifyColumn"
      BY <2>4, ModifyColumnKeeps, ColumnWithConstraints
    <2>5. CASE op.kind = "SetDefault"
      BY <2>5, SetDefaultKeeps
    <2>6. CASE op.kind = "SetNullable"
      BY <2>6, SetNullableKeeps
    <2>7. CASE op.kind = "SetDataType"
      BY <2>7, SetDataTypeKeeps
    <2>8. CASE op.kind = "AddConstraint"
      BY <2>8, AddConstraintKeeps
    <2>9. CASE op.kind = "DropConstraint"
      <3>1. AlterInv(n, DropConstraint(s, n, op))
        BY DropFirstKeeps DEF DropConstraint
      <3> QED BY <2>9, <3>1
    <2>10. CASE op.kind = "DropPrimaryKey"
      <3>1. AlterInv(n, DropPrimaryKey(s))
        BY DropFirstKeeps DEF DropPrimaryKey
      <3> QED BY <2>10, <3>1
    <2> QED BY <2>1, <2>2, <2>3, <2>4, <2>5, <2>6, <2>7, <2>8, <2>9, <2>10
            DEF IsAlterOperation, AlterKinds
  <1> HIDE DEF r
  <1>3. RawInv(u)
    BY <1>2, RefreshFacts DEF AlterInv, TableInv
  <1> HIDE DEF u
  <1>4. DOMAIN a = StateFields /\ a.table = u /\ a.tables = r.tables
    BY <1>2 DEF AlterInv, StateFields
  <1>5. AlterInv(n, a)
    BY <1>2, <1>3, <1>4 DEF AlterInv
  <1> QED BY <1>1, <1>2, <1>5

\* The states of an ALTER TABLE statement exist, one after the other.
LEMMA AlterSteps ==
  ASSUME NEW cat, NEW n, NEW ops, IsSeq(ops)
  PROVE  LET m == AlterStates(cat, n, ops) IN
         /\ m[0] = [ok |-> TRUE, tables |-> cat, table |-> cat[n]]
         /\ \A k \in 0..(Len(ops) - 1) :
              m[k + 1] = IF m[k].ok THEN ApplyAlterOperation(n, m[k], ops[k + 1]) ELSE m[k]
  <1> DEFINE N == Len(ops)
             first == [ok |-> TRUE, tables |-> cat, table |-> cat[n]]
             Step(r, i) == IF r.ok THEN ApplyAlterOperation(n, r, ops[i]) ELSE r
             Body(g, i) == IF i = 0 THEN first ELSE Step(g[i - 1], i)
             m == CHOOSE g : g = [i \in 0..N |-> Body(g, i)]
             E == {k \in 0..N : \E g : g = [i \in 0..k |-> Body(g, i)]}
  <1>0. N \in Nat /\ 0 \in 0..N /\ N \in 0..N
    BY SeqIsFunction
  <1>1. AlterStates(cat, n, ops) = m
    BY DEF AlterStates
  <1>2. m = [i \in 0..N |-> Body(m, i)]
    <2> HIDE DEF Step, first
    <2>1. 0 \in E
      <3> DEFINE g == [i \in 0..0 |-> first]
      <3>1. g = [i \in 0..0 |-> Body(g, i)]
        OBVIOUS
      <3> QED BY <1>0, <3>1
    <2>2. ASSUME NEW k \in 0..(N - 1), k \in E PROVE k + 1 \in E
      <3>1. PICK g : g = [i \in 0..k |-> Body(g, i)]
        BY <2>2
      <3> DEFINE h == [i \in 0..(k + 1) |-> IF i = k + 1 THEN Step(g[k], k + 1) ELSE g[i]]
      <3>2. ASSUME NEW i \in 0..(k + 1) PROVE h[i] = Body(h, i)
        <4>1. CASE i = 0
          BY <3>1, <4>1, <1>0
        <4>2. CASE i \in 1..k
          <5>1. i \in 0..k /\ i - 1 \in 0..k /\ i - 1 # k + 1 /\ i # k + 1 /\ i # 0 /\ i - 1 \in 0..(k + 1)
            BY <4>2, <1>0
          <5>2. g[i] = Body(g, i)
            BY <3>1, <5>1
          <5>3. h[i] = g[i] /\ h[i - 1] = g[i - 1]
            BY <5>1
          <5> QED BY <5>1, <5>2, <5>3
        <4>3. CASE i = k + 1
          <5>1. i - 1 = k /\ k \in 0..(k + 1) /\ k # k + 1 /\ i # 0
            BY <4>3, <1>0
          <5>2. h[k] = g[k]
            BY <5>1
          <5> QED BY <4>3, <5>1, <5>2
        <4> QED BY <4>1, <4>2, <4>3, <1>0
      <3>3. h = [i \in 0..(k + 1) |-> Body(h, i)]
        <4>1. h = [i \in 0..(k + 1) |-> h[i]]
          OBVIOUS
        <4> HIDE DEF h, Body
        <4> QED BY <3>2, <4>1
      <3>4. k + 1 \in 0..N
        BY <1>0
      <3> HIDE DEF h, Body
      <3> QED BY <3>3, <3>4
    <2>3. N \in E
      <3> HIDE DEF E
      <3> QED BY <1>0, <2>1, <2>2, UpTo
    <2>4. \E g : g = [i \in 0..N |-> Body(g, i)]
      BY <2>3
    <2> HIDE DEF Body
    <2> QED BY <2>4
  <1> HIDE DEF m
  <1>3. m[0] = first
    BY <1>0, <1>2
  <1>4. ASSUME NEW k \in 0..(N - 1)
        PROVE  m[k + 1] = Step(m[k], k + 1)
    <2>1. k + 1 \in 0..N /\ k + 1 # 0 /\ (k + 1) - 1 = k
      BY <1>0
    <2> HIDE DEF Step
    <2> QED BY <1>2, <2>1
  <1> QED BY <1>1, <1>3, <1>4

\* Every state of an ALTER TABLE statement.
LEMMA AlterStatesKeep ==
  ASSUME NEW cat, CatInv(cat), NEW n \in DOMAIN cat, NEW ops, IsSeq(ops),
         \A i \in DOMAIN ops : IsAlterOperation(ops[i])
  PROVE  LET m == AlterStates(cat, n, ops) IN
         \A k \in 0..Len(ops) : AlterInv(n, m[k])
  <1> DEFINE N == Len(ops)
             first == [ok |-> TRUE, tables |-> cat, table |-> cat[n]]
             m == AlterStates(cat, n, ops)
             S == {k \in 0..N : AlterInv(n, m[k])}
  <1>0. N \in Nat /\ 0 \in 0..N /\ N \in 0..N /\ DOMAIN ops = 1..N
    BY SeqIsFunction
  <1>1. /\ m[0] = first
        /\ \A k \in 0..(N - 1) :
             m[k + 1] = IF m[k].ok THEN ApplyAlterOperation(n, m[k], ops[k + 1]) ELSE m[k]
    BY AlterSteps
  <1> HIDE DEF m
  <1>3. 0 \in S
    <2>1. m[0] = first
      BY <1>1
    <2>2. DOMAIN first = StateFields /\ first.table = cat[n] /\ first.tables = cat
      BY DEF StateFields
    <2>3. AlterInv(n, first)
      BY <2>2 DEF AlterInv, CatInv, TableInv
    <2> HIDE DEF first
    <2> QED BY <1>0, <2>1, <2>3
  <1>4. ASSUME NEW k \in 0..(N - 1), k \in S PROVE k + 1 \in S
    <2>1. k + 1 \in 0..N /\ k + 1 # 0 /\ (k + 1) - 1 = k /\ k + 1 \in DOMAIN ops
      BY <1>0
    <2>2. m[k + 1] = IF m[k].ok THEN ApplyAlterOperation(n, m[k], ops[k + 1]) ELSE m[k]
      BY <1>1
    <2>3. AlterInv(n, m[k])
      BY <1>4
    <2>4. AlterInv(n, ApplyAlterOperation(n, m[k], ops[k + 1]))
      BY <2>1, <2>3, ApplyKeeps
    <2>5. AlterInv(n, m[k + 1])
      BY <2>2, <2>3, <2>4
    <2> QED BY <2>1, <2>5
  <1>5. \A k \in 0..N : k \in S
    <2> HIDE DEF S
    <2> QED BY <1>0, <1>3, <1>4, UpTo
  <1> QED BY <1>5 DEF m

\* execute_alter_table.
LEMMA AlterKeeps ==
  ASSUME NEW cat, CatInv(cat), NEW n \in DOMAIN cat, NEW ops, IsSeq(ops),
         \A i \in DOMAIN ops : IsAlterOperation(ops[i])
  PROVE  CatInv(ExecuteAlterTable(cat, n, ops).tables)
  <1> DEFINE s == AlterStates(cat, n, ops)[Len(ops)]
             t == RefreshConstraintMetadata(n, s.table)
             c == Store(s.tables, n, t)
  <1>1. AlterInv(n, s)
    <2>1. Len(ops) \in 0..Len(ops)
      BY SeqIsFunction
    <2> QED BY <2>1, AlterStatesKeep
  <1>2. ExecuteAlterTable(cat, n, ops).tables = c
    BY DEF ExecuteAlterTable, Result
  <1> HIDE DEF s
  <1>3. TableInv(n, t)
    BY <1>1, RefreshFacts DEF AlterInv
  <1> HIDE DEF t
  <1>4. CatInv(c)
    BY <1>1, <1>3 DEF AlterInv, CatInv, Store
  <1> HIDE DEF c
  <1> QED BY <1>2, <1>4

---------------------------------------------------------------------------
(* The other statements *)

\* execute_create_table.
LEMMA CreateTableKeeps ==
  ASSUME NEW cat, CatInv(cat), NEW n \in TableNames, NEW def \in TableDefs[n]
  PROVE  CatInv(ExecuteCreateTable(cat, n, def).tables)
  <1> DEFINE K == {i \in DOMAIN def.constraints : def.constraints[i].kind = "PrimaryKey"}
             primary == At(def.constraints, K)
             cols == Marked(def.columns, primary)
             bare == [columns |-> cols, constraints |-> def.constraints, indexes |-> <<>>,
                      rows |-> <<>>, ids |-> <<>>, next |-> 1, runtime |-> <<>>]
             auto == AutomaticIndexes(n, bare)
             u == [bare EXCEPT !.indexes = auto]
             r == RebuildIndex(u)
             res == ExecuteCreateTable(cat, n, def)
  <1>1. res.tables = cat \/ res.tables = Store(cat, n, r)
    BY DEF ExecuteCreateTable, NewTable, Result
  <1>2. /\ IsColumns(def.columns) /\ IsSeq(def.constraints)
        /\ def.constraints = <<>> =>
             \A i \in DOMAIN def.columns : ~def.columns[i].pk /\ ~def.columns[i].unique
    <2>1. /\ def.columns \in Seq(Range(def.columns))
          /\ \A i \in DOMAIN def.columns : DOMAIN def.columns[i] = ColumnFields
          /\ def.constraints \in Seq(Range(def.constraints))
          /\ def.constraints = <<>> =>
               \A i \in DOMAIN def.columns : ~def.columns[i].pk /\ ~def.columns[i].unique
      BY CatalogAssumption DEF IsColumnDef
    <2>2. IsSeq(def.columns) /\ IsSeq(def.constraints)
      BY <2>1 DEF IsSeq
    <2> QED BY <2>1, <2>2 DEF IsColumns
  <1>3. IsColumns(cols) /\ (def.constraints = <<>> => cols = def.columns)
    <2>1. K \subseteq DOMAIN def.constraints /\ (def.constraints = <<>> => K = {})
      OBVIOUS
    <2> HIDE DEF K
    <2>2. IsSeq(primary) /\ (def.constraints = <<>> => primary = <<>>)
      BY <1>2, <2>1, Positions, AtNone
    <2> HIDE DEF primary
    <2> QED BY <1>2, <2>2, MarkedFacts
  <1> HIDE DEF cols
  <1>4. IsSeq(auto) /\ \A i \in DOMAIN auto : auto[i].automatic
    BY <1>2, <1>3, AutoFacts DEF IsColumns
  <1>5. AutomaticIndexes(n, u) = auto
    <2>1. u.columns = bare.columns /\ u.constraints = bare.constraints
      OBVIOUS
    <2> HIDE DEF bare, u
    <2> QED BY <2>1, AutoSame DEF auto
  <1> HIDE DEF auto
  <1>6. /\ DOMAIN u = Fields /\ u.columns = cols /\ u.constraints = def.constraints
        /\ u.indexes = auto /\ u.rows = <<>> /\ u.ids = <<>> /\ u.next = 1
    BY DEF Fields
  <1> HIDE DEF u
  <1>7. RawInv(u)
    <2>1. <<>> \in Seq(Nat) /\ Len(<<>>) = 0 /\ IsSeq(<<>>) /\ DOMAIN <<>> = {}
      BY DEF IsSeq
    <2> QED BY <1>2, <1>3, <1>4, <1>6, <2>1 DEF RawInv, Shape, IdsInv
  <1>8. SchemaInv(n, u)
    <2>1. ASSUME NEW i \in DOMAIN auto
          PROVE  \E j \in DOMAIN u.indexes : u.indexes[j] = auto[i] /\ u.indexes[j].automatic
      BY <1>4, <1>6
    <2> QED BY <1>2, <1>3, <1>5, <1>6, <2>1 DEF SchemaInv
  <1>9. TableInv(n, r)
    <2>1. SameData(u, r) /\ RawInv(r) /\ IndexInv(r)
      BY <1>7, RebuildFacts
    <2> HIDE DEF r
    <2>2. SchemaInv(n, r)
      BY <2>1, <1>8, SchemaSame DEF SameData
    <2> QED BY <2>1, <2>2 DEF TableInv
  <1> HIDE DEF r, res
  <1>10. CatInv(Store(cat, n, r))
    BY <1>9, StoreKeeps
  <1> QED BY <1>1, <1>10 DEF res

\* execute_drop_table.
LEMMA DropTableKeeps ==
  ASSUME NEW cat, CatInv(cat), NEW n
  PROVE  CatInv(ExecuteDropTable(cat, n).tables)
  <1> DEFINE c == ExecuteDropTable(cat, n).tables
  <1>1. DOMAIN c \subseteq DOMAIN cat /\ \A m \in DOMAIN c : c[m] = cat[m]
    BY DEF ExecuteDropTable, Result
  <1> HIDE DEF c
  <1>2. CatInv(c)
    BY <1>1 DEF CatInv
  <1> QED BY <1>2 DEF c

\* A table whose indexes are rebuilt.
LEMMA RebuiltStored ==
  ASSUME NEW cat, CatInv(cat), NEW n, NEW t, RawInv(t), SchemaInv(n, t)
  PROVE  CatInv(Store(cat, n, RebuildIndex(t)))
  <1> DEFINE r == RebuildIndex(t)
  <1>1. SameData(t, r) /\ RawInv(r) /\ IndexInv(r)
    BY RebuildFacts
  <1> HIDE DEF r
  <1>2. SchemaInv(n, r)
    BY <1>1, SchemaSame DEF SameData
  <1>3. TableInv(n, r)
    BY <1>1, <1>2 DEF TableInv
  <1>4. CatInv(Store(cat, n, r))
    BY <1>3, StoreKeeps
  <1> QED BY <1>4 DEF r

\* execute_create_index.
LEMMA CreateIndexKeeps ==
  ASSUME NEW cat, CatInv(cat), NEW n \in DOMAIN cat, NEW def
  PROVE  CatInv(ExecuteCreateIndex(cat, n, def).tables)
  <1> DEFINE t == cat[n]
             ix == [name |-> def.name, columns |-> def.columns,
                    unique |-> def.unique, automatic |-> FALSE]
             u == [t EXCEPT !.indexes = Append(@, ix)]
             c == Store(cat, n, RebuildIndex(u))
             res == ExecuteCreateIndex(cat, n, def)
  <1>1. res.tables = cat \/ res.tables = c
    BY DEF ExecuteCreateIndex, Result
  <1>2. RawInv(t) /\ SchemaInv(n, t) /\ DOMAIN t = Fields /\ IsSeq(t.indexes)
    BY DEF CatInv, TableInv, RawInv, Shape
  <1> HIDE DEF ix
  <1>3. /\ DOMAIN u = Fields /\ u.columns = t.columns /\ u.constraints = t.constraints
        /\ u.indexes = Append(t.indexes, ix) /\ u.rows = t.rows /\ u.ids = t.ids /\ u.next = t.next
    BY <1>2 DEF Fields
  <1>4. /\ IsSeq(u.indexes) /\ Len(t.indexes) \in Nat /\ DOMAIN t.indexes = 1..Len(t.indexes)
        /\ DOMAIN u.indexes = 1..(Len(t.indexes) + 1)
        /\ \A i \in 1..Len(t.indexes) : u.indexes[i] = t.indexes[i]
    BY <1>2, <1>3, AppendFacts
  <1> HIDE DEF u
  <1>5. RawInv(u)
    BY <1>2, <1>3, <1>4 DEF RawInv, Shape, IdsInv
  <1>6. SchemaInv(n, u)
    <2>1. AutomaticIndexes(n, u) = AutomaticIndexes(n, t)
      BY <1>3, AutoSame
    <2>2. \A j \in DOMAIN t.indexes : j \in DOMAIN u.indexes /\ u.indexes[j] = t.indexes[j]
      BY <1>4
    <2> QED BY <1>2, <1>3, <2>1, <2>2 DEF SchemaInv
  <1>7. CatInv(c)
    BY <1>5, <1>6, RebuiltStored
  <1> HIDE DEF c, res
  <1> QED BY <1>1, <1>7 DEF res

\* execute_drop_index: only indexes that are not automatic go.
LEMMA DropIndexKeeps ==
  ASSUME NEW cat, CatInv(cat), NEW n \in DOMAIN cat, NEW name
  PROVE  CatInv(ExecuteDropIndex(cat, n, name).tables)
  <1> DEFINE t == cat[n]
             named == {i \in DOMAIN t.indexes : t.indexes[i].name = name}
             pos == CHOOSE i \in named : \A j \in named : i <= j
             u == [t EXCEPT !.indexes = RemoveAt(@, pos)]
             c == Store(cat, n, RebuildIndex(u))
             res == ExecuteDropIndex(cat, n, name)
  <1>1. \/ res.tables = cat
        \/ named # {} /\ ~t.indexes[pos].automatic /\ res.tables = c
    BY DEF ExecuteDropIndex, Result
  <1>2. RawInv(t) /\ SchemaInv(n, t) /\ DOMAIN t = Fields /\ IsSeq(t.indexes)
    BY DEF CatInv, TableInv, RawInv, Shape
  <1>3. named # {} => pos \in DOMAIN t.indexes
    <2>1. named \subseteq Nat
      BY <1>2, SeqIsFunction
    <2>2. named # {} => \E i \in named : \A j \in named : i <= j
      BY <2>1, LeastNumber
    <2> QED BY <2>2
  <1> HIDE DEF named, pos
  <1>4. /\ DOMAIN u = Fields /\ u.columns = t.columns /\ u.constraints = t.constraints
        /\ u.indexes = RemoveAt(t.indexes, pos) /\ u.rows = t.rows /\ u.ids = t.ids
        /\ u.next = t.next
    BY <1>2 DEF Fields
  <1> HIDE DEF u
  <1>5. ASSUME pos \in DOMAIN t.indexes, ~t.indexes[pos].automatic PROVE CatInv(c)
    <2>1. /\ IsSeq(u.indexes) /\ DOMAIN u.indexes = 1..(Len(t.indexes) - 1)
          /\ \A i \in 1..(Len(t.indexes) - 1) : u.indexes[i] = t.indexes[IF i < pos THEN i ELSE i + 1]
      BY <1>2, <1>4, <1>5, RemoveAtFacts
    <2>2. Len(t.indexes) \in Nat /\ DOMAIN t.indexes = 1..Len(t.indexes)
      BY <1>2, SeqIsFunction
    <2>3. RawInv(u)
      BY <1>2, <1>4, <2>1 DEF RawInv, Shape, IdsInv
    <2>4. ASSUME NEW j \in DOMAIN t.indexes, t.indexes[j].automatic
          PROVE  \E k \in DOMAIN u.indexes : u.indexes[k] = t.indexes[j]
      <3>1. j # pos
        BY <1>5, <2>4
      <3>2. CASE j < pos
        <4>1. j \in 1..(Len(t.indexes) - 1)
          BY <1>5, <2>2, <3>2
        <4> QED BY <2>1, <3>2, <4>1
      <3>3. CASE ~(j < pos)
        <4>1. j - 1 \in 1..(Len(t.indexes) - 1) /\ ~(j - 1 < pos) /\ (j - 1) + 1 = j
          BY <1>5, <2>2, <3>1, <3>3
        <4> QED BY <2>1, <4>1
      <3> QED BY <3>2, <3>3
    <2>5. SchemaInv(n, u)
      <3>1. AutomaticIndexes(n, u) = AutomaticIndexes(n, t)
        BY <1>4, AutoSame
      <3> QED BY <1>2, <1>4, <2>4, <3>1 DEF SchemaInv
    <2> QED BY <2>3, <2>5, RebuiltStored
  <1> HIDE DEF c, res
  <1> QED BY <1>1, <1>3, <1>5 DEF res

\* execute_update.
LEMMA UpdateKeeps ==
  ASSUME NEW cat, CatInv(cat), NEW n \in DOMAIN cat, NEW list, NEW sel, NEW ids
  PROVE  CatInv(ExecuteUpdate(cat, n, list, sel, ids).tables)
  <1> DEFINE t == cat[n]
             hits == Selected(t, ids, sel)
             rows == [p \in DOMAIN t.rows |->
                        IF p \in hits THEN UpdatedRow(t, list, t.rows[p]) ELSE t.rows[p]]
             u == [t EXCEPT !.rows = rows]
             c == Store(cat, n, RebuildIndex(u))
             res == ExecuteUpdate(cat, n, list, sel, ids)
  <1>1. res.tables = cat \/ res.tables = c
    BY DEF ExecuteUpdate, Result
  <1>2. RawInv(t) /\ SchemaInv(n, t) /\ DOMAIN t = Fields /\ IsSeq(t.rows)
    BY DEF CatInv, TableInv, RawInv, Shape
  <1>3. IsSeq(rows) /\ Len(rows) = Len(t.rows)
    <2>1. rows = [p \in DOMAIN t.rows |-> rows[p]]
      OBVIOUS
    <2> HIDE DEF rows
    <2> QED BY <1>2, <2>1, MappedIsSeq
  <1> HIDE DEF rows
  <1>4. /\ DOMAIN u = Fields /\ u.columns = t.columns /\ u.constraints = t.constraints
        /\ u.indexes = t.indexes /\ u.rows = rows /\ u.ids = t.ids /\ u.next = t.next
    BY <1>2 DEF Fields
  <1> HIDE DEF u
  <1>5. RawInv(u)
    BY <1>2, <1>3, <1>4 DEF RawInv, Shape, IdsInv
  <1>6. SchemaInv(n, u)
    BY <1>2, <1>4, SchemaSame
  <1>7. CatInv(c)
    BY <1>5, <1>6, RebuiltStored
  <1> HIDE DEF c, res
  <1> QED BY <1>1, <1>7 DEF res

\* execute_delete: the rows that stay keep their order.
LEMMA DeleteKeeps ==
  ASSUME NEW cat, CatInv(cat), NEW n \in DOMAIN cat, NEW sel, NEW ids
  PROVE  CatInv(ExecuteDelete(cat, n, sel, ids).tables)
  <1> DEFINE t == cat[n]
             K == DOMAIN t.rows \ Selected(t, ids, sel)
             u == [t EXCEPT !.rows = At(@, K), !.ids = At(@, K)]
             c == Store(cat, n, RebuildIndex(u))
             res == ExecuteDelete(cat, n, sel, ids)
  <1>1. res.tables = cat \/ res.tables = c
    BY DEF ExecuteDelete, Result
  <1>2. /\ RawInv(t) /\ SchemaInv(n, t) /\ DOMAIN t = Fields /\ IsSeq(t.rows)
        /\ t.ids \in Seq(Nat)
    BY DEF CatInv, TableInv, RawInv, Shape
  <1>3. /\ Len(t.rows) \in Nat /\ K \subseteq 1..Len(t.rows)
        /\ DOMAIN t.ids = 1..Len(t.rows)
    BY <1>2, IdsDiffer
  <1> HIDE DEF K
  <1>4. /\ DOMAIN u = Fields /\ u.columns = t.columns /\ u.constraints = t.constraints
        /\ u.indexes = t.indexes /\ u.rows = At(t.rows, K) /\ u.ids = At(t.ids, K)
        /\ u.next = t.next
    BY <1>2 DEF Fields
  <1> HIDE DEF u
  <1>5. RawInv(u)
    <2> DEFINE N == Cardinality(K)
    <2>1. /\ IsSeq(u.rows) /\ Len(u.rows) = N /\ N \in Nat
          /\ IsSeq(u.ids) /\ Len(u.ids) = N /\ DOMAIN u.ids = 1..N
          /\ \A i \in 1..N : u.ids[i] = t.ids[Place(K, i)]
      <3>1. IsSeq(At(t.rows, K)) /\ Len(At(t.rows, K)) = N /\ N \in Nat
        BY <1>3, AtFacts
      <3>2. /\ IsSeq(At(t.ids, K)) /\ Len(At(t.ids, K)) = N /\ DOMAIN At(t.ids, K) = 1..N
            /\ \A i \in 1..N : At(t.ids, K)[i] = t.ids[Place(K, i)]
        <4>1. /\ Len(t.rows) \in Nat /\ K \subseteq 1..Len(t.rows)
          BY <1>3
        <4> HIDE DEF t
        <4> QED BY <4>1, AtIds
      <3> HIDE DEF N
      <3> QED BY <1>4, <3>1, <3>2
    <2>2. /\ \A i \in 1..N : Place(K, i) \in K
          /\ \A i, j \in 1..N : i < j => Place(K, i) < Place(K, j)
      BY <1>3, PlaceFacts
    <2> HIDE DEF N
    <2>3. /\ \A p, q \in K : p < q => t.ids[p] < t.ids[q]
          /\ \A p \in K : t.ids[p] < t.next /\ t.ids[p] <= MaxRowId /\ t.ids[p] \in Nat
      <3>1. \A p \in K : p \in DOMAIN t.ids
        BY <1>3
      <3>2. \A p \in DOMAIN t.ids : t.ids[p] \in Nat
        BY <1>2
      <3>3. IdsInv(t)
        BY <1>2 DEF RawInv
      <3> QED BY <3>1, <3>2, <3>3 DEF IdsInv
    <2>4. u.ids \in Seq(Nat)
      <3>1. \A i \in 1..N : u.ids[i] \in Nat
        BY <2>1, <2>2, <2>3
      <3>2. u.ids = [i \in 1..N |-> u.ids[i]]
        BY <2>1, SeqIsFunction
      <3>3. u.ids \in [1..N -> Nat]
        BY <3>1, <3>2
      <3> QED BY <2>1, <3>3
    <2>5. Shape(u)
      BY <1>2, <1>4, <2>1, <2>4 DEF RawInv, Shape
    <2>6. /\ \A p, q \in DOMAIN u.ids : p < q => u.ids[p] < u.ids[q]
          /\ \A p \in DOMAIN u.ids : u.ids[p] < u.next /\ u.ids[p] <= MaxRowId
      BY <1>4, <2>1, <2>2, <2>3
    <2> QED BY <1>2, <1>4, <2>5, <2>6 DEF RawInv, IdsInv
  <1>6. SchemaInv(n, u)
    BY <1>2, <1>4, SchemaSame
  <1>7. CatInv(c)
    BY <1>5, <1>6, RebuiltStored
  <1> HIDE DEF c, res
  <1> QED BY <1>1, <1>7 DEF res

---------------------------------------------------------------------------
(* Restart *)

\* The next id after a restart.
LEMMA NextExists ==
  ASSUME NEW t, RawInv(t)
  PROVE  \E m \in 1..(Len(t.ids) + MaxRowId + 1) :
           (\A i \in Range(t.ids) : i < m) /\ (m = 1 \/ m - 1 \in Range(t.ids))
  <1>1. MaxRowId \in Nat /\ Len(t.ids) \in Nat /\ t.ids \in Seq(Nat)
    BY CatalogAssumption DEF RawInv, Shape
  <1>2. \A i \in Range(t.ids) : i \in 0..MaxRowId
    <2>1. \A p \in DOMAIN t.ids : t.ids[p] \in Nat /\ t.ids[p] <= MaxRowId
      BY <1>1 DEF RawInv, IdsInv
    <2>2. \A p \in DOMAIN t.ids : t.ids[p] \in 0..MaxRowId
      BY <1>1, <2>1
    <2> QED BY <2>2 DEF Range
  <1>3. CASE Range(t.ids) = {}
    <2>1. 1 \in 1..(Len(t.ids) + MaxRowId + 1)
      BY <1>1
    <2> QED BY <1>3, <2>1
  <1>4. CASE Range(t.ids) # {}
    <2>1. Range(t.ids) \subseteq 0..MaxRowId
      BY <1>2
    <2>2. PICK g \in Range(t.ids) : \A i \in Range(t.ids) : i <= g
      BY <1>1, <1>4, <2>1, GreatestNumber
    <2>3. g \in 0..MaxRowId
      BY <1>2
    <2>4. g + 1 \in 1..(Len(t.ids) + MaxRowId + 1) /\ (g + 1) - 1 = g
      BY <1>1, <2>3
    <2>5. \A i \in Range(t.ids) : i < g + 1
      BY <1>2, <2>2, <2>3
    <2> QED BY <2>2, <2>4, <2>5
  <1> QED BY <1>3, <1>4

\* migrate_legacy_rows leaves a table that this engine wrote as it was; only
\* the next id may fall back to the one after the last row.
LEMMA MigrateFacts ==
  ASSUME NEW n, NEW t, TableInv(n, t)
  PROVE  LET r == MigrateLegacyRows(n, t) IN
         /\ TableInv(n, r)
         /\ r.columns = t.columns /\ r.constraints = t.constraints /\ r.indexes = t.indexes
         /\ r.rows = t.rows /\ r.ids = t.ids
         /\ \A name \in DOMAIN r.runtime : r.runtime[name].entries = t.runtime[name].entries
  <1> DEFINE K == {i \in DOMAIN t.columns : t.columns[i].pk \/ t.columns[i].unique}
             flagged == At(t.columns, K)
             derived == [i \in DOMAIN flagged |->
                          [kind |-> IF flagged[i].pk THEN "PrimaryKey" ELSE "Unique",
                           name |-> <<>>, columns |-> <<flagged[i].name>>,
                           table |-> "", referred |-> <<>>, expr |-> <<>>]]
             s == [t EXCEPT !.constraints = IF @ = <<>> THEN derived ELSE @]
             ids == IF Len(t.ids) = Len(t.rows) THEN t.ids ELSE [p \in DOMAIN t.rows |-> p]
             next == CHOOSE m \in 1..(Len(ids) + MaxRowId + 1) :
                       /\ \A i \in Range(ids) : i < m
                       /\ m = 1 \/ m - 1 \in Range(ids)
             auto == AutomaticIndexes(n, s)
             u == [s EXCEPT !.indexes = IF @ = <<>> THEN auto ELSE @,
                            !.ids = ids, !.next = next]
             r == RebuildIndex(u)
  <1>0. /\ RawInv(t) /\ IndexInv(t) /\ SchemaInv(n, t) /\ DOMAIN t = Fields
        /\ IsColumns(t.columns) /\ IsSeq(t.constraints) /\ IsSeq(t.indexes)
        /\ Len(t.ids) = Len(t.rows) /\ t.ids \in Seq(Nat)
    BY DEF TableInv, RawInv, Shape
  <1>1. MigrateLegacyRows(n, t) = r
    BY DEF MigrateLegacyRows
  <1>2. t.constraints = <<>> => derived = <<>>
    <2>1. t.constraints = <<>> => K = {}
      BY <1>0 DEF SchemaInv
    <2>2. t.constraints = <<>> => flagged = <<>>
      <3> HIDE DEF K
      <3> QED BY <2>1, AtNone
    <2> HIDE DEF flagged
    <2>3. flagged = <<>> => derived = <<>>
      OBVIOUS
    <2> QED BY <2>2, <2>3
  <1> HIDE DEF derived
  <1>3. /\ DOMAIN s = Fields /\ s.columns = t.columns /\ s.constraints = t.constraints
        /\ s.indexes = t.indexes /\ s.rows = t.rows
    BY <1>0, <1>2 DEF Fields
  <1> HIDE DEF s
  <1>4. auto = AutomaticIndexes(n, t)
    BY <1>3, AutoSame
  <1>5. t.indexes = <<>> => auto = <<>>
    <2>1. IsSeq(auto)
      BY <1>0, <1>4, AutoFacts DEF IsColumns
    <2>2. ASSUME t.indexes = <<>> PROVE DOMAIN auto = {}
      <3>1. DOMAIN t.indexes = {}
        BY <2>2
      <3> QED BY <1>0, <1>4, <3>1 DEF SchemaInv
    <2>3. Len(auto) \in Nat /\ DOMAIN auto = 1..Len(auto)
      BY <2>1, SeqIsFunction
    <2>4. t.indexes = <<>> => Len(auto) = 0
      BY <2>2, <2>3
    <2>5. \A f : IsSeq(f) /\ Len(f) = 0 => f = <<>>
      BY DEF IsSeq
    <2> QED BY <2>1, <2>4, <2>5
  <1>6. ids = t.ids
    BY <1>0
  <1> HIDE DEF ids, auto
  <1>7. /\ next \in 1..(Len(t.ids) + MaxRowId + 1) /\ \A i \in Range(t.ids) : i < next
    BY <1>0, <1>6, NextExists
  <1> HIDE DEF next
  <1>8. /\ DOMAIN u = Fields /\ u.columns = t.columns /\ u.constraints = t.constraints
        /\ u.indexes = t.indexes /\ u.rows = t.rows /\ u.ids = t.ids /\ u.next = next
    BY <1>3, <1>5, <1>6 DEF Fields
  <1> HIDE DEF u
  <1>9. RawInv(u)
    <2>1. next \in Nat /\ next > 0
      BY <1>0, <1>7, CatalogAssumption
    <2>2. \A p \in DOMAIN t.ids : t.ids[p] < next
      BY <1>7 DEF Range
    <2> QED BY <1>0, <1>8, <2>1, <2>2 DEF RawInv, Shape, IdsInv
  <1>10. SameData(u, r) /\ RawInv(r) /\ IndexInv(r)
    BY <1>9, RebuildFacts
  <1> HIDE DEF r
  <1>11. /\ r.columns = t.columns /\ r.constraints = t.constraints /\ r.indexes = t.indexes
         /\ r.rows = t.rows /\ r.ids = t.ids
    BY <1>8, <1>10 DEF SameData
  <1>12. TableInv(n, r)
    BY <1>0, <1>10, <1>11, SchemaSame DEF TableInv
  <1>13. ASSUME NEW name \in DOMAIN r.runtime
         PROVE  r.runtime[name].entries = t.runtime[name].entries
    <2>1. name \in Names(t.indexes) /\ name \in Names(r.indexes)
      BY <1>10, <1>11 DEF IndexInv
    <2>2. LastNamed(r, name) = LastNamed(t, name)
      BY <1>11, SameIndexes
    <2>3. Maintained(r, r.runtime[name], LastNamed(t, name))
      BY <1>10, <2>1, <2>2 DEF IndexInv
    <2>4. Maintained(t, r.runtime[name], LastNamed(t, name))
      BY <2>3, <1>11, MaintainedSame
    <2>5. Maintained(t, t.runtime[name], LastNamed(t, name))
      BY <1>0, <2>1 DEF IndexInv
    <2> QED BY <2>4, <2>5, MaintainedUnique
  <1> QED BY <1>1, <1>11, <1>12, <1>13

---------------------------------------------------------------------------
(* The invariant *)

\* execute_catalog publishes the working copy or drops it.
LEMMA ExecuteKeeps ==
  ASSUME CatInv(tables), NEW r, CatInv(r.tables), Execute(r)
  PROVE  CatInv(tables')
  BY DEF Execute

\* There are no tables at first.
LEMMA InitCat ==
  ASSUME Init
  PROVE  CatInv(tables)
  BY DEF Init, CatInv

\* Every statement, and a restart, keep the invariant.
LEMMA NextCat ==
  ASSUME CatInv(tables), [Next]_vars
  PROVE  CatInv(tables')
  <1>1. ASSUME NEW n \in TableNames, CreateTable(n) PROVE CatInv(tables')
    <2>1. PICK def \in TableDefs[n] : Execute(ExecuteCreateTable(tables, n, def))
      BY <1>1 DEF CreateTable, ExecuteData
    <2> QED BY <2>1, CreateTableKeeps, ExecuteKeeps
  <1>2. ASSUME NEW n \in TableNames, DropTable(n) PROVE CatInv(tables')
    <2>1. Execute(ExecuteDropTable(tables, n))
      BY <1>2 DEF DropTable, ExecuteSchema
    <2> QED BY <2>1, DropTableKeeps, ExecuteKeeps
  <1>3. ASSUME NEW n \in TableNames, CreateIndex(n) PROVE CatInv(tables')
    <2>1. PICK def \in IndexDefs : Execute(ExecuteCreateIndex(tables, n, def))
      BY <1>3 DEF CreateIndex, ExecuteSchema
    <2>2. n \in DOMAIN tables
      BY <1>3 DEF CreateIndex
    <2> QED BY <2>1, <2>2, CreateIndexKeeps, ExecuteKeeps
  <1>4. ASSUME NEW n \in TableNames, DropIndex(n) PROVE CatInv(tables')
    <2>1. PICK def \in IndexDefs : Execute(ExecuteDropIndex(tables, n, def.name))
      BY <1>4 DEF DropIndex, ExecuteSchema
    <2>2. n \in DOMAIN tables
      BY <1>4 DEF DropIndex
    <2> QED BY <2>1, <2>2, DropIndexKeeps, ExecuteKeeps
  <1>5. ASSUME NEW n \in TableNames, AlterTable(n) PROVE CatInv(tables')
    <2>1. PICK ops \in AlterLists : Execute(ExecuteAlterTable(tables, n, ops))
      BY <1>5 DEF AlterTable, ExecuteSchema
    <2>2. n \in DOMAIN tables
      BY <1>5 DEF AlterTable
    <2>3. IsSeq(ops) /\ \A i \in DOMAIN ops : IsAlterOperation(ops[i])
      BY CatalogAssumption DEF IsSeq
    <2> QED BY <2>1, <2>2, <2>3, AlterKeeps, ExecuteKeeps
  <1>6. ASSUME NEW n \in TableNames, InsertValues(n) PROVE CatInv(tables')
    <2>1. PICK ins \in Inserts.values :
            /\ Room(n, Len(ins.rows))
            /\ Execute(ExecuteInsert(tables, n, ins.columns, ins.rows, ins.onDuplicate))
      BY <1>6 DEF InsertValues, ExecuteData
    <2>2. n \in DOMAIN tables
      BY <1>6 DEF InsertValues
    <2>3. ins.rows \in Seq(Seq(SqlValue))
      BY CatalogAssumption
    <2>4. IsSeq(ins.rows)
      BY <2>3 DEF IsSeq
    <2>5. tables[n].next + Len(ins.rows) <= MaxRowId
      BY <2>1 DEF Room
    <2> QED BY <2>1, <2>2, <2>4, <2>5, InsertKeeps, ExecuteKeeps
  <1>7. ASSUME NEW n \in TableNames, InsertSelect(n) PROVE CatInv(tables')
    <2>1. PICK q \in Inserts.queries :
            /\ q.from \in DOMAIN tables
            /\ \E ids \in CandidateRowIds(tables[q.from], q.selection) :
                 /\ Room(n, Len(QueryRows(tables, q, ids)))
                 /\ Execute(ExecuteInsert(tables, n, <<>>, QueryRows(tables, q, ids), <<>>))
      BY <1>7 DEF InsertSelect, ExecuteData
    <2>2. PICK ids \in CandidateRowIds(tables[q.from], q.selection) :
            /\ Room(n, Len(QueryRows(tables, q, ids)))
            /\ Execute(ExecuteInsert(tables, n, <<>>, QueryRows(tables, q, ids), <<>>))
      BY <2>1
    <2>3. n \in DOMAIN tables
      BY <1>7 DEF InsertSelect
    <2> DEFINE t == tables[q.from]
               K == Selected(t, ids, q.selection)
               hits == At(t.rows, K)
               rows == QueryRows(tables, q, ids)
    <2>4. IsSeq(hits)
      <3>1. IsSeq(t.rows)
        BY <2>1 DEF CatInv, TableInv, RawInv, Shape
      <3>2. K \subseteq DOMAIN t.rows
        BY DEF Selected
      <3> HIDE DEF K
      <3> QED BY <3>1, <3>2, Positions
    <2>5. rows = [i \in DOMAIN hits |-> rows[i]]
      BY DEF QueryRows
    <2> HIDE DEF hits, rows
    <2>6. IsSeq(rows)
      BY <2>4, <2>5, MappedIsSeq
    <2>7. tables[n].next + Len(rows) <= MaxRowId
      BY <2>2 DEF Room, rows
    <2>8. CatInv(ExecuteInsert(tables, n, <<>>, rows, <<>>).tables)
      BY <2>3, <2>6, <2>7, InsertKeeps
    <2> QED BY <2>2, <2>8, ExecuteKeeps DEF rows
  <1>8. ASSUME NEW n \in TableNames, Update(n) PROVE CatInv(tables')
    <2>1. PICK list \in Updates, sel \in Selections :
            \E ids \in CandidateRowIds(tables[n], sel) :
              Execute(ExecuteUpdate(tables, n, list, sel, ids))
      BY <1>8 DEF Update, ExecuteData
    <2>2. PICK ids : Execute(ExecuteUpdate(tables, n, list, sel, ids))
      BY <2>1
    <2>3. n \in DOMAIN tables
      BY <1>8 DEF Update
    <2> QED BY <2>2, <2>3, UpdateKeeps, ExecuteKeeps
  <1>9. ASSUME NEW n \in TableNames, Delete(n) PROVE CatInv(tables')
    <2>1. PICK sel \in Selections :
            \E ids \in CandidateRowIds(tables[n], sel) :
              Execute(ExecuteDelete(tables, n, sel, ids))
      BY <1>9 DEF Delete, ExecuteData
    <2>2. PICK ids : Execute(ExecuteDelete(tables, n, sel, ids))
      BY <2>1
    <2>3. n \in DOMAIN tables
      BY <1>9 DEF Delete
    <2> QED BY <2>2, <2>3, DeleteKeeps, ExecuteKeeps
  <1>10. ASSUME Reload PROVE CatInv(tables')
    <2>1. tables' = [n \in DOMAIN tables |-> MigrateLegacyRows(n, tables[n])]
      BY <1>10 DEF Reload
    <2>2. ASSUME NEW n \in DOMAIN tables PROVE TableInv(n, MigrateLegacyRows(n, tables[n]))
      <3>1. TableInv(n, tables[n])
        BY DEF CatInv
      <3> QED BY <3>1, MigrateFacts
    <2> QED BY <2>1, <2>2 DEF CatInv
  <1>11. CASE UNCHANGED vars
    BY <1>11 DEF vars, CatInv
  <1> QED BY <1>1, <1>2, <1>3, <1>4, <1>5, <1>6, <1>7, <1>8, <1>9, <1>10, <1>11 DEF Next

\* Every table of every reachable catalog satisfies the invariant.
THEOREM CatalogInvariant == Spec => []CatInv(tables)
  <1>1. Init => CatInv(tables)
    BY InitCat
  <1>2. CatInv(tables) /\ [Next]_vars => CatInv(tables)'
    BY NextCat
  <1> QED BY <1>1, <1>2, PTL DEF Spec

\* Row ids increase along each table and stay below the next id, through
\* INSERT, DELETE, ALTER and restarts that recompute the next id.
THEOREM RowIdsIncreaseHolds == Spec => []RowIdsIncrease
  <1>1. CatInv(tables) => RowIdsIncrease
    BY DEF CatInv, TableInv, RawInv, IdsInv, RowIdsIncrease
  <1> QED BY <1>1, CatalogInvariant, PTL

\* A restart rebuilds exactly the index entries that statements maintained,
\* and changes neither rows, ids, constraints nor index definitions.
THEOREM RestartChangesNothingHolds == Spec => []RestartChangesNothing
  <1>1. ASSUME CatInv(tables) PROVE RestartChangesNothing
    <2>1. SUFFICES ASSUME NEW n \in DOMAIN tables
          PROVE  LET t == tables[n]
                     r == MigrateLegacyRows(n, t)
                 IN /\ r.rows = t.rows /\ r.ids = t.ids
                    /\ r.constraints = t.constraints /\ r.indexes = t.indexes
                    /\ \A name \in DOMAIN r.runtime :
                         r.runtime[name].entries = t.runtime[name].entries
      BY DEF RestartChangesNothing
    <2>2. TableInv(n, tables[n])
      BY <1>1 DEF CatInv
    <2> QED BY <2>2, MigrateFacts
  <1> QED BY <1>1, CatalogInvariant, PTL

---------------------------------------------------------------------------
(* Foreign keys *)

\* Equal values that are not NULL compare as equal.
LEMMA EqualCompares ==
  ASSUME NEW a, ~IsNull(a)
  PROVE  CompareSql(a, "=", a) = "True"
  BY DEF CompareSql, Comparable, Ordered, FromBool

\* The validation depends on schema and rows only.
LEMMA ForeignKeysSame ==
  ASSUME NEW cat, NEW new, ValidateForeignKeys(cat), DOMAIN new = DOMAIN cat,
         \A n \in DOMAIN cat : /\ new[n].columns = cat[n].columns
                               /\ new[n].constraints = cat[n].constraints
                               /\ new[n].indexes = cat[n].indexes
                               /\ new[n].rows = cat[n].rows
  PROVE  ValidateForeignKeys(new)
  <1> SUFFICES ASSUME NEW n \in DOMAIN cat, NEW fk \in ForeignKeys(new[n])
               PROVE  /\ fk.table \in DOMAIN new
                      /\ UniquelyIndexed(new[fk.table], fk.referred)
                      /\ HasColumns(new[n], fk.columns) /\ HasColumns(new[fk.table], fk.referred)
                      /\ \A p \in DOMAIN new[n].rows :
                           LET key == IndexKey(new[n], new[n].rows[p], fk.columns)
                           IN \/ HasNull(key)
                              \/ \E q \in DOMAIN new[fk.table].rows :
                                   IndexKey(new[fk.table], new[fk.table].rows[q], fk.referred) = key
    BY DEF ValidateForeignKeys
  <1>1. fk \in ForeignKeys(cat[n])
    BY DEF ForeignKeys
  <1> DEFINE m == fk.table
             Key(p) == IndexKey(cat[n], cat[n].rows[p], fk.columns)
             Target(q) == IndexKey(cat[m], cat[m].rows[q], fk.referred)
  <1>2. /\ m \in DOMAIN cat
        /\ UniquelyIndexed(cat[m], fk.referred)
        /\ HasColumns(cat[n], fk.columns) /\ HasColumns(cat[m], fk.referred)
        /\ \A p \in DOMAIN cat[n].rows :
             HasNull(Key(p)) \/ \E q \in DOMAIN cat[m].rows : Target(q) = Key(p)
    BY <1>1 DEF ValidateForeignKeys
  <1>3. UniquelyIndexed(new[m], fk.referred)
    BY <1>2 DEF UniquelyIndexed
  <1>4. HasColumns(new[n], fk.columns) /\ HasColumns(new[m], fk.referred)
    BY <1>2, SameKeys
  <1>5. \A p : IndexKey(new[n], new[n].rows[p], fk.columns) = Key(p)
    BY SameKeys
  <1>6. \A q : IndexKey(new[m], new[m].rows[q], fk.referred) = Target(q)
    BY <1>2, SameKeys
  <1>7. new[n].rows = cat[n].rows /\ new[m].rows = cat[m].rows
    BY <1>2
  <1> HIDE DEF Key, Target
  <1> QED BY <1>2, <1>3, <1>4, <1>5, <1>6, <1>7

\* Every published catalog was validated, and a restart keeps what was.
LEMMA NextForeignKeys ==
  ASSUME CatInv(tables), ValidateForeignKeys(tables), [Next]_vars
  PROVE  ValidateForeignKeys(tables')
  <1>1. ASSUME NEW r, Execute(r) PROVE ValidateForeignKeys(tables')
    <2>1. CASE r.ok /\ ValidateCatalog(r.tables)
      <3>1. tables' = r.tables
        BY <1>1, <2>1 DEF Execute
      <3> QED BY <2>1, <3>1 DEF ValidateCatalog
    <2>2. CASE ~(r.ok /\ ValidateCatalog(r.tables))
      <3>1. tables' = tables
        BY <1>1, <2>2 DEF Execute
      <3> QED BY <3>1
    <2> QED BY <2>1, <2>2
  <1>2. ASSUME NEW n \in TableNames, CreateTable(n) PROVE \E r : Execute(r)
    BY <1>2 DEF CreateTable, ExecuteData
  <1>3. ASSUME NEW n \in TableNames, DropTable(n) PROVE \E r : Execute(r)
    BY <1>3 DEF DropTable, ExecuteSchema
  <1>4. ASSUME NEW n \in TableNames, CreateIndex(n) PROVE \E r : Execute(r)
    BY <1>4 DEF CreateIndex, ExecuteSchema
  <1>5. ASSUME NEW n \in TableNames, DropIndex(n) PROVE \E r : Execute(r)
    BY <1>5 DEF DropIndex, ExecuteSchema
  <1>6. ASSUME NEW n \in TableNames, AlterTable(n) PROVE \E r : Execute(r)
    BY <1>6 DEF AlterTable, ExecuteSchema
  <1>7. ASSUME NEW n \in TableNames, InsertValues(n) PROVE \E r : Execute(r)
    BY <1>7 DEF InsertValues, ExecuteData
  <1>8. ASSUME NEW n \in TableNames, InsertSelect(n) PROVE \E r : Execute(r)
    BY <1>8 DEF InsertSelect, ExecuteData
  <1>9. ASSUME NEW n \in TableNames, Update(n) PROVE \E r : Execute(r)
    BY <1>9 DEF Update, ExecuteData
  <1>10. ASSUME NEW n \in TableNames, Delete(n) PROVE \E r : Execute(r)
    BY <1>10 DEF Delete, ExecuteData
  <1>11. ASSUME Reload PROVE ValidateForeignKeys(tables')
    <2>1. tables' = [n \in DOMAIN tables |-> MigrateLegacyRows(n, tables[n])]
      BY <1>11 DEF Reload
    <2>2. ASSUME NEW n \in DOMAIN tables
          PROVE  /\ tables'[n].columns = tables[n].columns
                 /\ tables'[n].constraints = tables[n].constraints
                 /\ tables'[n].indexes = tables[n].indexes
                 /\ tables'[n].rows = tables[n].rows
      <3>1. TableInv(n, tables[n])
        BY DEF CatInv
      <3>2. tables'[n] = MigrateLegacyRows(n, tables[n])
        BY <2>1
      <3> QED BY <3>1, <3>2, MigrateFacts
    <2>3. DOMAIN tables' = DOMAIN tables
      BY <2>1
    <2> QED BY <2>2, <2>3, ForeignKeysSame
  <1>12. CASE UNCHANGED vars
    BY <1>12 DEF vars
  <1> QED BY <1>1, <1>2, <1>3, <1>4, <1>5, <1>6, <1>7, <1>8, <1>9, <1>10, <1>11, <1>12 DEF Next

\* Every foreign key leads from each row without NULL to a row of an existing
\* table: each published catalog was validated as a whole, and a restart, which
\* validates nothing, changes nothing the validation looked at.
THEOREM ForeignKeysLeadHolds == Spec => []ForeignKeysLead
  <1>1. Init => ValidateForeignKeys(tables)
    BY DEF Init, ValidateForeignKeys
  <1>2. CatInv(tables) /\ ValidateForeignKeys(tables) /\ [Next]_vars => ValidateForeignKeys(tables)'
    BY NextForeignKeys
  <1>3. ASSUME ValidateForeignKeys(tables) PROVE ForeignKeysLead
    <2> SUFFICES ASSUME NEW n \in DOMAIN tables, NEW fk \in ForeignKeys(tables[n])
                 PROVE  /\ fk.table \in DOMAIN tables
                        /\ HasColumns(tables[n], fk.columns)
                        /\ HasColumns(tables[fk.table], fk.referred)
                        /\ \A row \in Range(tables[n].rows) :
                             LET key == IndexKey(tables[n], row, fk.columns)
                             IN HasNull(key) \/ \E target \in Range(tables[fk.table].rows) :
                                  \A i \in DOMAIN key :
                                    CompareSql(target[ColumnIndex(tables[fk.table], fk.referred[i])],
                                               "=", key[i]) = "True"
      BY DEF ForeignKeysLead
    <2> DEFINE m == fk.table
               t == tables[n]
               u == tables[m]
    <2>1. /\ m \in DOMAIN tables
          /\ HasColumns(t, fk.columns) /\ HasColumns(u, fk.referred)
          /\ \A p \in DOMAIN t.rows :
               \/ HasNull(IndexKey(t, t.rows[p], fk.columns))
               \/ \E q \in DOMAIN u.rows :
                    IndexKey(u, u.rows[q], fk.referred) = IndexKey(t, t.rows[p], fk.columns)
      BY <1>3 DEF ValidateForeignKeys
    <2>2. ASSUME NEW row \in Range(t.rows), ~HasNull(IndexKey(t, row, fk.columns))
          PROVE  \E target \in Range(u.rows) :
                   \A i \in DOMAIN IndexKey(t, row, fk.columns) :
                     CompareSql(target[ColumnIndex(u, fk.referred[i])], "=",
                                IndexKey(t, row, fk.columns)[i]) = "True"
      <3> DEFINE key == IndexKey(t, row, fk.columns)
      <3>1. PICK p \in DOMAIN t.rows : t.rows[p] = row
        BY DEF Range
      <3>2. PICK q \in DOMAIN u.rows : IndexKey(u, u.rows[q], fk.referred) = key
        BY <2>1, <2>2, <3>1
      <3>3. u.rows[q] \in Range(u.rows)
        BY <3>2 DEF Range
      <3>4. ASSUME NEW i \in DOMAIN key
            PROVE  CompareSql(u.rows[q][ColumnIndex(u, fk.referred[i])], "=", key[i]) = "True"
        <4>1. i \in DOMAIN fk.referred /\ IndexKey(u, u.rows[q], fk.referred)[i] = u.rows[q][ColumnIndex(u, fk.referred[i])]
          <5>1. DOMAIN IndexKey(u, u.rows[q], fk.referred) = DOMAIN fk.referred
            BY DEF IndexKey
          <5>2. i \in DOMAIN fk.referred
            BY <3>2, <5>1
          <5> QED BY <5>2 DEF IndexKey
        <4>2. u.rows[q][ColumnIndex(u, fk.referred[i])] = key[i]
          BY <3>2, <4>1
        <4>3. ~IsNull(key[i])
          BY <2>2 DEF HasNull
        <4> HIDE DEF key
        <4> QED BY <4>2, <4>3, EqualCompares
      <3> QED BY <3>3, <3>4
    <2> QED BY <2>1, <2>2
  <1> QED BY <1>1, <1>2, <1>3, CatalogInvariant, PTL DEF Spec
=============================================================================
