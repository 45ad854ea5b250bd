------------------------------ MODULE Catalog ------------------------------
(***************************************************************************)
(* The tables of the SQL engine (sql/executor.rs): schemas, rows, stable   *)
(* row ids, runtime indexes, and one action per statement that writes.     *)
(*                                                                         *)
(* A write statement runs on a copy of the catalog, is validated as a      *)
(* whole and is published or discarded (execute_catalog).  Names are in    *)
(* lower case already.  The name of an index or constraint is the sequence *)
(* of the words it is put together from, <<>> when the user gave none, so  *)
(* that a chosen name can equal a generated one.  A selection or a CHECK   *)
(* is a conjunction of atoms.  A default of NULL is no default.            *)
(*                                                                         *)
(* Left out: the map primary_key_index, which no code reads, false         *)
(* positives of the Bloom filters, which end in a failed lookup, and names *)
(* of different words that are the same once joined with '_'.              *)
(***************************************************************************)
EXTENDS SqlValues, Sequences, FiniteSets, SequencesExt, Positions

CONSTANTS
  TableNames,   \* names of tables
  TableDefs,    \* table name -> set of definitions CREATE TABLE may give it
  IndexDefs,    \* definitions for CREATE INDEX
  AlterLists,   \* operation lists for ALTER TABLE
  Inserts,      \* column lists, sources and ON DUPLICATE KEY lists for INSERT
  Updates,      \* assignment lists for UPDATE
  Selections,   \* WHERE clauses
  MaxRows,      \* bound on the rows of a table
  MaxRowId,     \* bound on row ids
  MaxChanges    \* bound on schema changes after CREATE TABLE

ColumnFields == {"name", "type", "nullable", "pk", "unique", "default"}

AlterKinds == {"AddColumn", "DropColumn", "RenameColumn", "ModifyColumn", "SetDefault",
               "SetNullable", "SetDataType", "AddConstraint", "DropConstraint",
               "DropPrimaryKey"}

ConstraintFields == {"kind", "name", "columns", "table", "referred", "expr"}

\* A column as convert_column_def makes it: its default is a value.
IsColumnDef(c) ==
  DOMAIN c = ColumnFields /\ c.type \in DataType /\ c.default \in SqlValue

\* A CHECK names no columns of its own.
IsConstraintDef(c) ==
  /\ DOMAIN c = ConstraintFields
  /\ c.columns \in Seq(Range(c.columns))
  /\ c.kind = "Check" => c.columns = <<>>

\* The constraints that come with a column name that column only.
IsColumnWithConstraints(d) ==
  /\ IsColumnDef(d.column)
  /\ d.constraints \in Seq(Range(d.constraints))
  /\ \A i \in DOMAIN d.constraints :
       /\ IsConstraintDef(d.constraints[i])
       /\ Range(d.constraints[i].columns) \subseteq {d.column.name}

IsAlterOperation(op) ==
  /\ op.kind \in AlterKinds
  /\ op.kind \in {"AddColumn", "ModifyColumn"} => IsColumnWithConstraints(op.def)
  /\ op.kind = "AddConstraint" => IsConstraintDef(op.constraint)
  /\ op.kind = "SetDefault" => op.val \in SqlValue
  /\ op.kind = "SetDataType" => op.type \in DataType

IsAssignmentList(list) ==
  /\ list \in Seq(Range(list))
  /\ \A i \in DOMAIN list :
       /\ list[i].kind \in {"literal", "column", "incoming"}
       /\ list[i].kind = "literal" => list[i].val \in SqlValue

\* Lists are sequences, columns and constraints are records, values are SQL
\* values, and a column's key options come with constraints, as ConvertColumnDef
\* makes them.
ASSUME CatalogAssumption ==
  /\ MaxRowId \in Nat
  /\ \A n \in TableNames : \A def \in TableDefs[n] :
       /\ def.columns \in Seq(Range(def.columns))
       /\ \A i \in DOMAIN def.columns : IsColumnDef(def.columns[i])
       /\ def.constraints \in Seq(Range(def.constraints))
       /\ \A i \in DOMAIN def.constraints : IsConstraintDef(def.constraints[i])
       /\ def.constraints = <<>> =>
            \A i \in DOMAIN def.columns : ~def.columns[i].pk /\ ~def.columns[i].unique
  /\ \A def \in IndexDefs : def.columns \in Seq(Range(def.columns))
  /\ \A ops \in AlterLists :
       /\ ops \in Seq(Range(ops))
       /\ \A i \in DOMAIN ops : IsAlterOperation(ops[i])
  /\ \A ins \in Inserts.values :
       /\ ins.columns \in Seq(Range(ins.columns))
       /\ ins.rows \in Seq(Seq(SqlValue))
       /\ IsAssignmentList(ins.onDuplicate)
  /\ \A q \in Inserts.queries : q.columns \in Seq(Range(q.columns))
  /\ \A list \in Updates : IsAssignmentList(list)
  /\ \A sel \in Selections :
       /\ sel \in Seq(Range(sel))
       /\ \A i \in DOMAIN sel : sel[i].op # "IsNull" => sel[i].val \in SqlValue

VARIABLES
  tables,       \* Catalog::tables, a function from names to tables
  changes       \* schema changes so far

vars == <<tables, changes>>

----------------------------------------------------------------------------
(* Schemas *)

Names(seq) == {seq[i].name : i \in DOMAIN seq}

HasColumn(t, c) == c \in Names(t.columns)

ColumnIndex(t, c) == CHOOSE i \in DOMAIN t.columns : t.columns[i].name = c

HasColumns(t, cols) == \A i \in DOMAIN cols : HasColumn(t, cols[i])

\* A column and the constraints its options stand for.
ConvertColumnDef(d) ==
  LET con(kind) == [kind |-> kind, name |-> <<>>, columns |-> <<d.name>>,
                    table |-> "", referred |-> <<>>, expr |-> <<>>]
  IN [column |-> [name |-> d.name, type |-> d.type,
                  nullable |-> d.nullable /\ d.key # "PrimaryKey",
                  pk |-> d.key = "PrimaryKey",
                  unique |-> d.key \in {"PrimaryKey", "Unique"},
                  default |-> d.default],
      constraints |->
        [i \in DOMAIN d.checks |->
           [con("Check") EXCEPT !.columns = <<>>, !.expr = d.checks[i]]]
        \o [i \in DOMAIN d.references |->
              [con("ForeignKey") EXCEPT !.table = d.references[i].table,
                                        !.referred = d.references[i].columns]]
        \o (IF d.key = "" THEN <<>> ELSE <<con(d.key)>>)]

GeneratedConstraintName(n, c) ==
  IF c.name # <<>> THEN c.name
  ELSE CASE c.kind = "PrimaryKey" -> <<n, "pk">>
         [] c.kind = "Unique"     -> <<n>> \o c.columns \o <<"uk">>
         [] c.kind = "ForeignKey" -> <<n>> \o c.columns \o <<"fk">>
         [] c.kind = "Check"      -> <<n, "check">>

AutomaticIndexes(n, t) ==
  LET index(name, cols, unique) ==
        [name |-> name, columns |-> cols, unique |-> unique, automatic |-> TRUE]
      keys == At(t.constraints, {i \in DOMAIN t.constraints : t.constraints[i].kind # "Check"})
      ofConstraints ==
        [i \in DOMAIN keys |->
           index(GeneratedConstraintName(n, keys[i]), keys[i].columns,
                 keys[i].kind # "ForeignKey")]
      bare == At(t.columns, {j \in DOMAIN t.columns :
                   /\ t.columns[j].pk \/ t.columns[j].unique
                   /\ \A i \in DOMAIN ofConstraints :
                        ofConstraints[i].columns # <<t.columns[j].name>>})
  IN ofConstraints \o
     [i \in DOMAIN bare |->
        index(<<n, bare[i].name, IF bare[i].pk THEN "pk" ELSE "uk">>,
              <<bare[i].name>>, TRUE)]

\* What a PRIMARY KEY says of its columns.
MarkPrimaryKey(columns, c) ==
  [i \in DOMAIN columns |->
     IF c.kind = "PrimaryKey" /\ columns[i].name \in Range(c.columns)
     THEN [columns[i] EXCEPT !.nullable = FALSE,
                             !.pk = Len(c.columns) = 1,
                             !.unique = Len(c.columns) = 1]
     ELSE columns[i]]

MarkConstraint(columns, c) ==
  [i \in DOMAIN columns |->
     IF c.kind = "Unique" /\ c.columns = <<columns[i].name>>
     THEN [columns[i] EXCEPT !.unique = TRUE]
     ELSE MarkPrimaryKey(columns, c)[i]]

\* The columns after each of the constraints.
Marked(columns, constraints) ==
  LET m[i \in 0..Len(constraints)] ==
        IF i = 0 THEN columns ELSE MarkConstraint(m[i - 1], constraints[i])
  IN m[Len(constraints)]

ValidateRow(t, row) ==
  /\ Len(row) = Len(t.columns)
  /\ \A i \in DOMAIN row :
       IF IsNull(row[i]) THEN t.columns[i].nullable
       ELSE IsCompatibleWith(row[i], t.columns[i].type)

----------------------------------------------------------------------------
(* Runtime indexes: for each name the definition, the entries (the row ids *)
(* of each key) and the keys in the Bloom filter.                          *)

IndexKey(t, row, cols) ==
  [i \in DOMAIN cols |-> row[ColumnIndex(t, cols[i])]]

BuildIndex(t, def) ==
  LET positions == IF HasColumns(t, def.columns) THEN DOMAIN t.rows ELSE {}
      key(p) == IndexKey(t, t.rows[p], def.columns)
      keys == {key(p) : p \in positions}
  IN [columns |-> def.columns, unique |-> def.unique, bloom |-> keys,
      entries |-> [k \in keys |->
                     {t.ids[p] : p \in {q \in positions : key(q) = k}}]]

\* The runtime map is keyed by name: of two definitions with one name the
\* later one stays.
LastNamed(t, name) ==
  t.indexes[CHOOSE i \in DOMAIN t.indexes :
              /\ t.indexes[i].name = name
              /\ \A j \in DOMAIN t.indexes : t.indexes[j].name = name => j <= i]

RebuildIndex(t) ==
  [t EXCEPT !.runtime = [name \in Names(t.indexes) |-> BuildIndex(t, LastNamed(t, name))]]

AddEntry(ix, key, id) ==
  [ix EXCEPT
     !.entries = [k \in DOMAIN @ \union {key} |->
                    (IF k \in DOMAIN @ THEN @[k] ELSE {})
                    \union (IF k = key THEN {id} ELSE {})],
     !.bloom = @ \union {key}]

RemoveEntry(ix, key, id) ==
  LET left == IF key \in DOMAIN ix.entries THEN ix.entries[key] \ {id} ELSE {}
      keys == IF left = {} THEN DOMAIN ix.entries \ {key} ELSE DOMAIN ix.entries
  IN [ix EXCEPT !.entries = [k \in keys |-> IF k = key THEN left ELSE @[k]]]

\* The caller has validated the row.
InsertRowIndexed(t, row) ==
  [t EXCEPT
     !.rows = Append(@, row),
     !.ids = Append(@, t.next),
     !.next = @ + 1,
     !.runtime = [name \in DOMAIN @ |->
                    IF HasColumns(t, @[name].columns)
                    THEN AddEntry(@[name], IndexKey(t, row, @[name].columns), t.next)
                    ELSE @[name]]]

\* Slip: the Bloom filter does not learn the new key.
MoveEntry_NoBloom(ix, old, new, id) ==
  [AddEntry(RemoveEntry(ix, old, id), new, id) EXCEPT !.bloom = ix.bloom]

\* Slip: the row stays under its previous key.
MoveEntry_KeepOld(ix, old, new, id) == AddEntry(ix, new, id)

\* Slip: the row is not entered under its new key.
MoveEntry_Lost(ix, old, new, id) ==
  IF old = new THEN ix ELSE RemoveEntry(ix, old, id)

MoveEntry(ix, old, new, id) ==
  IF old = new THEN ix ELSE AddEntry(RemoveEntry(ix, old, id), new, id)

ReplaceRowIndexed(t, p, row) ==
  [t EXCEPT
     !.rows[p] = row,
     !.runtime = [name \in DOMAIN @ |->
                    IF HasColumns(t, @[name].columns)
                    THEN MoveEntry(@[name], IndexKey(t, t.rows[p], @[name].columns),
                                   IndexKey(t, row, @[name].columns), t.ids[p])
                    ELSE @[name]]]

HasNull(key) == \E i \in DOMAIN key : IsNull(key[i])

UniqueConflicts(t, row) ==
  LET hits(ix) ==
        LET key == IndexKey(t, row, ix.columns)
        IN IF /\ ix.unique
              /\ HasColumns(t, ix.columns)
              /\ ~HasNull(key)
              /\ key \in ix.bloom
              /\ key \in DOMAIN ix.entries
           THEN ix.entries[key] ELSE {}
      ids == UNION {hits(t.runtime[name]) : name \in DOMAIN t.runtime}
  IN {p \in DOMAIN t.ids : t.ids[p] \in ids}

----------------------------------------------------------------------------
(* Selections and index lookup *)

AtomTruth(t, atom, row) ==
  LET value == row[ColumnIndex(t, atom.col)]
  IN IF atom.op = "IsNull" THEN FromBool(IsNull(value))
     ELSE CompareSql(value, atom.op, atom.val)

\* AND stops at the first FALSE, so only the atoms before it are evaluated.
EvalFails(t, sel, row) ==
  \E i \in DOMAIN sel :
    /\ ~HasColumn(t, sel[i].col)
    /\ \A j \in 1..(i - 1) : HasColumn(t, sel[j].col)
                             /\ AtomTruth(t, sel[j], row) # "False"

EvalTruth(t, sel, row) ==
  IF \E i \in DOMAIN sel : AtomTruth(t, sel[i], row) = "False" THEN "False"
  ELSE IF \A i \in DOMAIN sel : AtomTruth(t, sel[i], row) = "True" THEN "True"
  ELSE "Unknown"

\* The ids an index offers for a selection, and how good the offer is: a
\* prefix of columns compared for equality and at most one range after it.
\* For each column the first predicate that names it counts.
IndexOffer(ix, sel) ==
  LET named(c) == {i \in DOMAIN sel : sel[i].op # "IsNull" /\ sel[i].col = c}
      first(c) == sel[CHOOSE i \in named(c) : \A j \in named(c) : i <= j]
      equal(c) == named(c) # {} /\ first(c).op = "="
      prefix == CHOOSE k \in 0..Len(ix.columns) :
                  /\ \A i \in 1..k : equal(ix.columns[i])
                  /\ k = Len(ix.columns) \/ ~equal(ix.columns[k + 1])
      ranged == /\ prefix < Len(ix.columns)
                /\ named(ix.columns[prefix + 1]) # {}
                /\ first(ix.columns[prefix + 1]).op \in {"<", "<=", ">", ">="}
      bound == first(ix.columns[prefix + 1])
      wanted == {key \in DOMAIN ix.entries :
                   /\ \A i \in 1..prefix : key[i] = first(ix.columns[i]).val
                   /\ ranged => CompareKeyPart(key[prefix + 1], bound.op, bound.val)
                   /\ prefix = Len(ix.columns) => key \in ix.bloom}
  IN [ids |-> UNION {ix.entries[key] : key \in wanted},
      score |-> 2 * prefix + (IF ranged THEN 1 ELSE 0)]

\* The row ids candidate_row_ids may return.  Runtime indexes are visited in
\* the order of a hash map: any of the best may win.
CandidateRowIds(t, sel) ==
  LET offers == {IndexOffer(t.runtime[name], sel) : name \in DOMAIN t.runtime}
      best == {o \in offers : /\ o.score > 0
                              /\ \A q \in offers : q.score <= o.score}
  IN IF best = {} THEN {Range(t.ids)} ELSE {o.ids : o \in best}

Selected(t, ids, sel) ==
  {p \in DOMAIN t.rows : /\ t.ids[p] \in ids
                         /\ EvalTruth(t, sel, t.rows[p]) = "True"}

SelectionFails(t, ids, sel) ==
  \E p \in DOMAIN t.rows : t.ids[p] \in ids /\ EvalFails(t, sel, t.rows[p])

----------------------------------------------------------------------------
(* Validation of a whole catalog *)

ValidateChecks(t) ==
  \A p \in DOMAIN t.rows : \A i \in DOMAIN t.constraints :
    t.constraints[i].kind = "Check" =>
      /\ ~EvalFails(t, t.constraints[i].expr, t.rows[p])
      /\ EvalTruth(t, t.constraints[i].expr, t.rows[p]) # "False"

ValidateUniqueIndexes(t) ==
  \A name \in DOMAIN t.runtime :
    t.runtime[name].unique =>
      \A key \in DOMAIN t.runtime[name].entries :
        HasNull(key) \/ Cardinality(t.runtime[name].entries[key]) <= 1

ForeignKeys(t) == {c \in Range(t.constraints) : c.kind = "ForeignKey"}

UniquelyIndexed(t, cols) ==
  \E i \in DOMAIN t.indexes : t.indexes[i].unique /\ t.indexes[i].columns = cols

\* Slip: each column of the key is looked up on its own.
ValidateForeignKeys_PerColumn(cat) ==
  \A n \in DOMAIN cat : \A fk \in ForeignKeys(cat[n]) :
    /\ fk.table \in DOMAIN cat
    /\ UniquelyIndexed(cat[fk.table], fk.referred)
    /\ HasColumns(cat[n], fk.columns) /\ HasColumns(cat[fk.table], fk.referred)
    /\ \A p \in DOMAIN cat[n].rows :
         LET key == IndexKey(cat[n], cat[n].rows[p], fk.columns)
         IN \/ HasNull(key)
            \/ \A i \in DOMAIN key : \E q \in DOMAIN cat[fk.table].rows :
                 IndexKey(cat[fk.table], cat[fk.table].rows[q], fk.referred)[i] = key[i]

ValidateForeignKeys(cat) ==
  \A n \in DOMAIN cat : \A fk \in ForeignKeys(cat[n]) :
    /\ fk.table \in DOMAIN cat
    /\ UniquelyIndexed(cat[fk.table], fk.referred)
    /\ HasColumns(cat[n], fk.columns) /\ HasColumns(cat[fk.table], fk.referred)
    /\ \A p \in DOMAIN cat[n].rows :
         LET key == IndexKey(cat[n], cat[n].rows[p], fk.columns)
         IN \/ HasNull(key)
            \/ \E q \in DOMAIN cat[fk.table].rows :
                 IndexKey(cat[fk.table], cat[fk.table].rows[q], fk.referred) = key

ValidateCatalog(cat) ==
  /\ \A n \in DOMAIN cat :
       /\ \A p \in DOMAIN cat[n].rows : ValidateRow(cat[n], cat[n].rows[p])
       /\ ValidateChecks(cat[n])
       /\ ValidateUniqueIndexes(cat[n])
  /\ ValidateForeignKeys(cat)

----------------------------------------------------------------------------
(* Statements.  Each is a function of the catalog that yields ok or an     *)
(* error and the working copy it leaves.                                   *)

Result(ok, cat) == [ok |-> ok, tables |-> cat]

Store(cat, n, t) == [m \in DOMAIN cat \union {n} |-> IF m = n THEN t ELSE cat[m]]

\* execute_catalog: publish the working copy or drop it.
Execute(r) ==
  tables' = IF r.ok /\ ValidateCatalog(r.tables) THEN r.tables ELSE tables

ExecuteData(r) == Execute(r) /\ UNCHANGED changes

ExecuteSchema(r) ==
  /\ changes < MaxChanges
  /\ Execute(r)
  /\ changes' = IF tables' = tables THEN changes ELSE changes + 1

NewTable(n, columns, constraints) ==
  LET bare == [columns |-> columns, constraints |-> constraints, indexes |-> <<>>,
               rows |-> <<>>, ids |-> <<>>, next |-> 1, runtime |-> <<>>]
  IN RebuildIndex([bare EXCEPT !.indexes = AutomaticIndexes(n, bare)])

\* With IF NOT EXISTS the refusal of an existing table is a success that
\* changes nothing; the same goes for the other statements.
ExecuteCreateTable(cat, n, def) ==
  LET keyed == {c \in Range(def.constraints) : c.kind # "Check"}
      primary == At(def.constraints, {i \in DOMAIN def.constraints :
                                         def.constraints[i].kind = "PrimaryKey"})
      ok == /\ n \notin DOMAIN cat
            /\ Cardinality(Names(def.columns)) = Len(def.columns)
            /\ \A c \in keyed : Range(c.columns) \subseteq Names(def.columns)
            /\ Len(primary) <= 1
      columns == Marked(def.columns, primary)
  IN Result(ok, IF ok THEN Store(cat, n, NewTable(n, columns, def.constraints))
                ELSE cat)

ExecuteDropTable(cat, n) ==
  LET ok == /\ n \in DOMAIN cat
            /\ \A m \in DOMAIN cat \ {n} :
                 \A fk \in ForeignKeys(cat[m]) : fk.table # n
  IN Result(ok, [m \in DOMAIN cat \ (IF ok THEN {n} ELSE {}) |-> cat[m]])

ExecuteCreateIndex(cat, n, def) ==
  LET t == RebuildIndex([cat[n] EXCEPT !.indexes =
             Append(@, [name |-> def.name, columns |-> def.columns,
                        unique |-> def.unique, automatic |-> FALSE])])
      ok == /\ n \in DOMAIN cat
            /\ def.name \notin Names(cat[n].indexes)
            /\ def.columns # <<>> /\ HasColumns(cat[n], def.columns)
            /\ ValidateUniqueIndexes(t)
  IN Result(ok, IF ok THEN Store(cat, n, t) ELSE cat)

ExecuteDropIndex(cat, n, name) ==
  LET named == {i \in DOMAIN cat[n].indexes : cat[n].indexes[i].name = name}
      pos == CHOOSE i \in named : \A j \in named : i <= j
      ok == /\ n \in DOMAIN cat
            /\ named # {}
            /\ ~cat[n].indexes[pos].automatic
  IN Result(ok, IF ok THEN Store(cat, n, RebuildIndex(
                             [cat[n] EXCEPT !.indexes = RemoveAt(@, pos)]))
                ELSE cat)

----------------------------------------------------------------------------
(* ALTER TABLE.  The operations of one statement pass on a state: whether  *)
(* all is well, the working catalog, and the table, which is stored at the *)
(* end.                                                                    *)

RefreshConstraintMetadata(n, t) ==
  LET reset == [i \in DOMAIN t.columns |->
                  [t.columns[i] EXCEPT !.pk = FALSE, !.unique = FALSE]]
      marked == [t EXCEPT !.columns = Marked(reset, t.constraints)]
  IN RebuildIndex([marked EXCEPT !.indexes =
       AutomaticIndexes(n, marked) \o At(@, {i \in DOMAIN @ : ~@[i].automatic})])

Rename(names, old, new) ==
  [i \in DOMAIN names |-> IF names[i] = old THEN new ELSE names[i]]

RenameSchemaReferences(n, t, old, new) ==
  LET atom(a) == [a EXCEPT !.col = IF @ = old THEN new ELSE @]
      constraint(c) ==
        [c EXCEPT !.columns = Rename(@, old, new),
                  !.referred = IF c.table = n THEN Rename(@, old, new) ELSE @,
                  !.expr = [i \in DOMAIN @ |-> atom(@[i])]]
      index(x) == [x EXCEPT !.columns = Rename(@, old, new)]
  IN [t EXCEPT !.constraints = [i \in DOMAIN @ |-> constraint(@[i])],
               !.indexes = [i \in DOMAIN @ |-> index(@[i])]]

\* Foreign keys of other tables follow a renamed column.
RenameInboundReferences(cat, n, old, new) ==
  LET follow(c) == IF c.kind = "ForeignKey" /\ c.table = n
                   THEN [c EXCEPT !.referred = Rename(@, old, new)] ELSE c
  IN [m \in DOMAIN cat |->
        IF m = n \/ \A fk \in ForeignKeys(cat[m]) :
                      fk.table # n \/ old \notin Range(fk.referred)
        THEN cat[m]
        ELSE RefreshConstraintMetadata(m,
               [cat[m] EXCEPT !.constraints = [i \in DOMAIN @ |-> follow(@[i])]])]

Refuse(s) == [s EXCEPT !.ok = FALSE]

AddColumn(s, op) ==
  LET t == s.table
      c == op.def.column
      v == CoerceTo(c.default, c.type)
  IN IF HasColumn(t, c.name) THEN (IF op.lenient THEN s ELSE Refuse(s))
     ELSE IF \/ ~IsCompatibleWith(c.default, c.type)
             \/ IsNull(v) /\ ~c.nullable /\ t.rows # <<>>
     THEN Refuse(s)
     ELSE [s EXCEPT !.table.rows = [p \in DOMAIN @ |-> Append(@[p], v)],
                    !.table.columns = Append(@, c),
                    !.table.constraints = @ \o op.def.constraints]

DropColumn(s, n, op) ==
  LET t == s.table
      pos == ColumnIndex(t, op.col)
      local == \/ \E c \in Range(t.constraints) : op.col \in Range(c.columns)
               \/ \E x \in Range(t.indexes) : op.col \in Range(x.columns)
      inbound == \E m \in DOMAIN s.tables \ {n} : \E fk \in ForeignKeys(s.tables[m]) :
                   fk.table = n /\ op.col \in Range(fk.referred)
  IN IF ~HasColumn(t, op.col) THEN (IF op.lenient THEN s ELSE Refuse(s))
     ELSE IF Len(t.columns) = 1 \/ local \/ inbound THEN Refuse(s)
     ELSE [s EXCEPT !.table.columns = RemoveAt(@, pos),
                    !.table.rows = [p \in DOMAIN @ |-> RemoveAt(@[p], pos)]]

RenameColumn(s, n, op) ==
  IF HasColumn(s.table, op.new) \/ ~HasColumn(s.table, op.col) THEN Refuse(s)
  ELSE [s EXCEPT
          !.table = RenameSchemaReferences(n,
             [@ EXCEPT !.columns[ColumnIndex(s.table, op.col)].name = op.new],
             op.col, op.new),
          !.tables = RenameInboundReferences(@, n, op.col, op.new)]

\* The values of one column, converted.
Converts(t, pos, type) ==
  \A p \in DOMAIN t.rows : IsCompatibleWith(t.rows[p][pos], type)

ConvertColumn(rows, pos, type) ==
  [p \in DOMAIN rows |-> [rows[p] EXCEPT ![pos] = CoerceTo(@, type)]]

\* Slip: constraints and indexes keep the old name of the column.
ModifyColumn_KeepReferences(s, n, op) ==
  LET t == s.table
      c == op.def.column
      pos == ColumnIndex(t, op.col)
      fresh == SelectSeq(op.def.constraints, LAMBDA d :
                 ~\E e \in Range(t.constraints) :
                    e.kind = d.kind /\ e.columns = d.columns)
  IN IF \/ ~HasColumn(t, op.col)
        \/ op.col # c.name /\ HasColumn(t, c.name)
        \/ ~Converts(t, pos, c.type)
     THEN Refuse(s)
     ELSE [s EXCEPT !.table.rows = ConvertColumn(@, pos, c.type),
                    !.table.columns[pos] = c,
                    !.table.constraints = @ \o fresh]

\* MODIFY and CHANGE COLUMN.  Foreign keys of other tables do not follow.
\* A CHECK counts as a duplicate of any CHECK the table has, or was given
\* before it by the same operation.
ModifyColumn(s, n, op) ==
  LET c == op.def.column
      pos == ColumnIndex(s.table, op.col)
      t == IF op.col = c.name THEN s.table
           ELSE RenameSchemaReferences(n, s.table, op.col, c.name)
      fresh == At(op.def.constraints, {i \in DOMAIN op.def.constraints :
                 ~\E e \in Range(t.constraints)
                            \union {op.def.constraints[j] : j \in 1..(i - 1)} :
                    /\ e.kind = op.def.constraints[i].kind
                    /\ e.columns = op.def.constraints[i].columns})
  IN IF \/ ~HasColumn(s.table, op.col)
        \/ op.col # c.name /\ HasColumn(s.table, c.name)
        \/ ~Converts(s.table, pos, c.type)
     THEN Refuse(s)
     ELSE [s EXCEPT !.table = [t EXCEPT !.rows = ConvertColumn(@, pos, c.type),
                                        !.columns[pos] = c,
                                        !.constraints = @ \o fresh]]

SetDefault(s, op) ==
  LET pos == ColumnIndex(s.table, op.col)
  IN IF ~HasColumn(s.table, op.col) THEN Refuse(s)
     ELSE IF ~IsCompatibleWith(op.val, s.table.columns[pos].type) THEN Refuse(s)
     ELSE [s EXCEPT !.table.columns[pos].default =
                      CoerceTo(op.val, s.table.columns[pos].type)]

SetNullable(s, op) ==
  LET pos == ColumnIndex(s.table, op.col)
      t == s.table
  IN IF ~HasColumn(t, op.col) THEN Refuse(s)
     ELSE IF \/ op.nullable /\ t.columns[pos].pk
             \/ ~op.nullable /\ \E p \in DOMAIN t.rows : IsNull(t.rows[p][pos])
     THEN Refuse(s)
     ELSE [s EXCEPT !.table.columns[pos].nullable = op.nullable]

SetDataType(s, op) ==
  LET pos == ColumnIndex(s.table, op.col)
      t == s.table
  IN IF ~HasColumn(t, op.col) THEN Refuse(s)
     ELSE IF \/ ~Converts(t, pos, op.type)
             \/ ~IsCompatibleWith(t.columns[pos].default, op.type)
     THEN Refuse(s)
     ELSE [s EXCEPT !.table.rows = ConvertColumn(@, pos, op.type),
                    !.table.columns[pos].default = CoerceTo(@, op.type),
                    !.table.columns[pos].type = op.type]

AddConstraint(s, op) ==
  LET t == s.table
      c == op.constraint
  IN IF \/ c.name # <<>> /\ c.name \in Names(t.constraints)
        \/ c.kind = "PrimaryKey" /\ \E d \in Range(t.constraints) : d.kind = c.kind
        \/ ~HasColumns(t, c.columns)
        \/ \E i \in DOMAIN c.expr : ~HasColumn(t, c.expr[i].col)
     THEN Refuse(s)
     ELSE [s EXCEPT !.table.constraints = Append(@, c)]

\* DROP CONSTRAINT and DROP PRIMARY KEY: the first one that fits goes.
DropFirst(s, fits, lenient) ==
  IF fits = {} THEN (IF lenient THEN s ELSE Refuse(s))
  ELSE [s EXCEPT !.table.constraints =
          RemoveAt(@, CHOOSE i \in fits : \A j \in fits : i <= j)]

DropConstraint(s, n, op) ==
  DropFirst(s, {i \in DOMAIN s.table.constraints :
                  GeneratedConstraintName(n, s.table.constraints[i]) = op.name},
            op.lenient)

DropPrimaryKey(s) ==
  DropFirst(s, {i \in DOMAIN s.table.constraints :
                  s.table.constraints[i].kind = "PrimaryKey"}, FALSE)

ApplyAlterOperation(n, s, op) ==
  LET r == CASE op.kind = "AddColumn"      -> AddColumn(s, op)
             [] op.kind = "DropColumn"     -> DropColumn(s, n, op)
             [] op.kind = "RenameColumn"   -> RenameColumn(s, n, op)
             [] op.kind = "ModifyColumn"   -> ModifyColumn(s, n, op)
             [] op.kind = "SetDefault"     -> SetDefault(s, op)
             [] op.kind = "SetNullable"    -> SetNullable(s, op)
             [] op.kind = "SetDataType"    -> SetDataType(s, op)
             [] op.kind = "AddConstraint"  -> AddConstraint(s, op)
             [] op.kind = "DropConstraint" -> DropConstraint(s, n, op)
             [] op.kind = "DropPrimaryKey" -> DropPrimaryKey(s)
  IN IF r.ok THEN [r EXCEPT !.table = RefreshConstraintMetadata(n, @)] ELSE r

\* The states of the statement, one after each operation.
AlterStates(cat, n, ops) ==
  LET s[i \in 0..Len(ops)] ==
        IF i = 0 THEN [ok |-> TRUE, tables |-> cat, table |-> cat[n]]
        ELSE LET r == s[i - 1]
             IN IF r.ok THEN ApplyAlterOperation(n, r, ops[i]) ELSE r
  IN s

ExecuteAlterTable(cat, n, ops) ==
  LET s == AlterStates(cat, n, ops)[Len(ops)]
  IN IF n \notin DOMAIN cat THEN Result(FALSE, cat)
     ELSE Result(s.ok, Store(s.tables, n, RefreshConstraintMetadata(n, s.table)))

----------------------------------------------------------------------------
(* INSERT, UPDATE, DELETE *)

\* Columns by position, defaults for NULL, coercion where it is defined.
OrderedRow(t, cols, raw) ==
  LET given(c) == {i \in DOMAIN cols : cols[i] = c}
      value(i) == IF cols = <<>> THEN raw[i]
                  ELSE IF given(t.columns[i].name) = {} THEN Null
                  ELSE raw[CHOOSE j \in given(t.columns[i].name) : TRUE]
      filled(i) == IF IsNull(value(i)) THEN t.columns[i].default ELSE value(i)
      type(i) == t.columns[i].type
  IN [i \in DOMAIN t.columns |->
        IF IsCompatibleWith(filled(i), type(i)) THEN CoerceTo(filled(i), type(i))
        ELSE filled(i)]

RowFits(t, cols, raw) ==
  IF cols = <<>> THEN Len(raw) = Len(t.columns)
  ELSE /\ Len(raw) = Len(cols)
       /\ HasColumns(t, cols)
       /\ Cardinality(Range(cols)) = Len(cols)

\* The value of an assignment's right-hand side: a literal, a column of the
\* row, or VALUES(column) of the row that was to be inserted.
Operand(t, a, row, incoming) ==
  CASE a.kind = "literal"  -> a.val
    [] a.kind = "column"   -> row[ColumnIndex(t, a.src)]
    [] a.kind = "incoming" -> IF HasColumn(t, a.src)
                              THEN incoming[ColumnIndex(t, a.src)] ELSE Null

\* One assignment of ON DUPLICATE KEY UPDATE.
Assigned(t, a, s, incoming) ==
  LET pos == ColumnIndex(t, a.col)
      v == Operand(t, a, s.row, incoming)
  IN IF \/ ~s.ok \/ ~HasColumn(t, a.col)
        \/ a.kind = "column" /\ ~HasColumn(t, a.src)
     THEN [s EXCEPT !.ok = FALSE]
     ELSE [s EXCEPT !.row[pos] = IF IsCompatibleWith(v, t.columns[pos].type)
                                 THEN CoerceTo(v, t.columns[pos].type) ELSE v]

\* The assignments are made left to right, each sees the ones before it.
OnDuplicate(t, list, current, incoming) ==
  LET s[i \in 0..Len(list)] ==
        IF i = 0 THEN [ok |-> TRUE, row |-> current]
        ELSE Assigned(t, list[i], s[i - 1], incoming)
  IN s[Len(list)]

InsertOne(s, row, onDuplicate) ==
  LET t == s.table
      conflicts == UniqueConflicts(t, row)
      p == CHOOSE q \in conflicts : TRUE
      u == OnDuplicate(t, onDuplicate, t.rows[p], row)
  IN IF conflicts = {}
     THEN IF ValidateRow(t, row) THEN [s EXCEPT !.table = InsertRowIndexed(@, row)]
          ELSE Refuse(s)
     ELSE IF onDuplicate = <<>> \/ Cardinality(conflicts) # 1 THEN Refuse(s)
     ELSE IF ~u.ok THEN Refuse(s)
     ELSE IF u.row = t.rows[p] THEN s
     ELSE IF ~ValidateRow(t, u.row) THEN Refuse(s)
     ELSE [s EXCEPT !.table = ReplaceRowIndexed(@, p, u.row)]

\* The states of the statement, one after each row.
InsertStates(t, rows, onDuplicate) ==
  LET s[i \in 0..Len(rows)] ==
        IF i = 0 THEN [ok |-> TRUE, table |-> t]
        ELSE LET r == s[i - 1]
             IN IF r.ok THEN InsertOne(r, rows[i], onDuplicate) ELSE r
  IN s

ExecuteInsert(cat, n, cols, values, onDuplicate) ==
  LET t == cat[n]
      rows == [i \in DOMAIN values |-> OrderedRow(t, cols, values[i])]
      s == InsertStates(t, rows, onDuplicate)[Len(rows)]
      ok == /\ n \in DOMAIN cat
            /\ \A i \in DOMAIN values : RowFits(t, cols, values[i])
            /\ s.ok
  IN Result(ok, IF ok THEN Store(cat, n, s.table) ELSE cat)

\* SELECT columns FROM table WHERE selection, as the source of an INSERT.
QueryOk(cat, q, ids) ==
  /\ q.from \in DOMAIN cat
  /\ HasColumns(cat[q.from], q.columns)
  /\ ~SelectionFails(cat[q.from], ids, q.selection)

QueryRows(cat, q, ids) ==
  LET t == cat[q.from]
      hits == At(t.rows, Selected(t, ids, q.selection))
  IN [i \in DOMAIN hits |-> IndexKey(t, hits[i], q.columns)]

\* The last assignment to the column at a position, if there is one.
Assigns(t, list, pos) == {k \in DOMAIN list : ColumnIndex(t, list[k].col) = pos}

LastAssignment(t, list, pos) ==
  list[CHOOSE k \in Assigns(t, list, pos) : \A j \in Assigns(t, list, pos) : j <= k]

\* Slip: the value is stored without conversion to the column's type.
UpdatedRow_NoCoercion(t, list, row) ==
  [i \in DOMAIN row |-> IF Assigns(t, list, i) = {} THEN row[i]
                        ELSE Operand(t, LastAssignment(t, list, i), row, row)]

\* All assignments of an UPDATE read the row as it was; of two to one column
\* the later one stays.
UpdatedRow(t, list, row) ==
  [i \in DOMAIN row |->
     IF Assigns(t, list, i) = {} THEN row[i]
     ELSE CoerceTo(Operand(t, LastAssignment(t, list, i), row, row), t.columns[i].type)]

AssignmentFails(t, a, row) ==
  \/ ~HasColumn(t, a.col)
  \/ a.kind = "column" /\ ~HasColumn(t, a.src)
  \/ ~IsCompatibleWith(Operand(t, a, row, row),
                       t.columns[ColumnIndex(t, a.col)].type)

ExecuteUpdate(cat, n, list, sel, ids) ==
  LET t == cat[n]
      hits == Selected(t, ids, sel)
      ok == /\ ~SelectionFails(t, ids, sel)
            /\ \A p \in hits : \A i \in DOMAIN list :
                 ~AssignmentFails(t, list[i], t.rows[p])
      rows == [p \in DOMAIN t.rows |->
                 IF p \in hits THEN UpdatedRow(t, list, t.rows[p]) ELSE t.rows[p]]
  IN Result(ok, IF ok THEN Store(cat, n, RebuildIndex([t EXCEPT !.rows = rows]))
                ELSE cat)

ExecuteDelete(cat, n, sel, ids) ==
  LET t == cat[n]
      kept == DOMAIN t.rows \ Selected(t, ids, sel)
      ok == ~SelectionFails(t, ids, sel)
  IN Result(ok, IF ok THEN Store(cat, n, RebuildIndex(
       [t EXCEPT !.rows = At(@, kept), !.ids = At(@, kept)])) ELSE cat)

----------------------------------------------------------------------------
(* Loading a catalog: runtime indexes are not stored, old schemas have     *)
(* neither constraints nor indexes, old tables have no row ids.            *)

\* Slip: ids continue after the number of rows.
MigrateLegacyRows_CountRows(n, t) ==
  RebuildIndex([t EXCEPT !.next = Len(t.rows) + 1])

MigrateLegacyRows(n, t) ==
  LET flagged == At(t.columns, {i \in DOMAIN t.columns :
                                  t.columns[i].pk \/ t.columns[i].unique})
      derived == [i \in DOMAIN flagged |->
                    [kind |-> IF flagged[i].pk THEN "PrimaryKey" ELSE "Unique",
                     name |-> <<>>, columns |-> <<flagged[i].name>>,
                     table |-> "", referred |-> <<>>, expr |-> <<>>]]
      s == [t EXCEPT !.constraints = IF @ = <<>> THEN derived ELSE @]
      ids == IF Len(t.ids) = Len(t.rows) THEN t.ids
             ELSE [p \in DOMAIN t.rows |-> p]
  IN RebuildIndex([s EXCEPT
       !.indexes = IF @ = <<>> THEN AutomaticIndexes(n, s) ELSE @,
       !.ids = ids,
       !.next = CHOOSE m \in 1..(Len(ids) + MaxRowId + 1) :
                  /\ \A i \in Range(ids) : i < m
                  /\ m = 1 \/ m - 1 \in Range(ids)])

----------------------------------------------------------------------------
(* Actions *)

Init == tables = [n \in {} |-> <<>>] /\ changes = 0

CreateTable(n) ==
  \E def \in TableDefs[n] : ExecuteData(ExecuteCreateTable(tables, n, def))

DropTable(n) == ExecuteSchema(ExecuteDropTable(tables, n))

CreateIndex(n) ==
  /\ n \in DOMAIN tables
  /\ \E def \in IndexDefs : ExecuteSchema(ExecuteCreateIndex(tables, n, def))

DropIndex(n) ==
  /\ n \in DOMAIN tables
  /\ \E def \in IndexDefs : ExecuteSchema(ExecuteDropIndex(tables, n, def.name))

AlterTable(n) ==
  /\ n \in DOMAIN tables
  /\ \E ops \in AlterLists : ExecuteSchema(ExecuteAlterTable(tables, n, ops))

Room(n, k) == /\ Len(tables[n].rows) + k <= MaxRows
              /\ tables[n].next + k <= MaxRowId

InsertValues(n) ==
  /\ n \in DOMAIN tables
  /\ \E ins \in Inserts.values :
       /\ Room(n, Len(ins.rows))
       /\ ExecuteData(ExecuteInsert(tables, n, ins.columns, ins.rows, ins.onDuplicate))

InsertSelect(n) ==
  /\ n \in DOMAIN tables
  /\ \E q \in Inserts.queries :
       /\ q.from \in DOMAIN tables
       /\ \E ids \in CandidateRowIds(tables[q.from], q.selection) :
            /\ QueryOk(tables, q, ids)
            /\ LET rows == QueryRows(tables, q, ids)
               IN /\ Room(n, Len(rows))
                  /\ ExecuteData(ExecuteInsert(tables, n, <<>>, rows, <<>>))

Update(n) ==
  /\ n \in DOMAIN tables
  /\ \E list \in Updates, sel \in Selections :
       \E ids \in CandidateRowIds(tables[n], sel) :
         ExecuteData(ExecuteUpdate(tables, n, list, sel, ids))

Delete(n) ==
  /\ n \in DOMAIN tables
  /\ \E sel \in Selections : \E ids \in CandidateRowIds(tables[n], sel) :
       ExecuteData(ExecuteDelete(tables, n, sel, ids))

\* A restart that finds the catalog in a snapshot.
Reload ==
  /\ tables' = [n \in DOMAIN tables |-> MigrateLegacyRows(n, tables[n])]
  /\ UNCHANGED changes

Next ==
  \/ \E n \in TableNames :
       \/ CreateTable(n) \/ DropTable(n) \/ CreateIndex(n) \/ DropIndex(n)
       \/ AlterTable(n)
       \/ InsertValues(n) \/ InsertSelect(n) \/ Update(n) \/ Delete(n)
  \/ Reload

Spec == Init /\ [][Next]_vars

----------------------------------------------------------------------------
(* Properties *)

\* Rows and ids run side by side, every stored value has exactly the type of
\* its column (index keys of different types never meet), and NOT NULL holds.
TypeOK ==
  \A n \in DOMAIN tables :
    LET t == tables[n]
    IN /\ n \in TableNames
       /\ Len(t.ids) = Len(t.rows)
       /\ DOMAIN t.runtime = Names(t.indexes)
       /\ \A p \in DOMAIN t.rows :
            /\ Len(t.rows[p]) = Len(t.columns)
            /\ \A i \in DOMAIN t.columns :
                 IF IsNull(t.rows[p][i]) THEN t.columns[i].nullable
                 ELSE t.rows[p][i].type = t.columns[i].type

\* Row ids increase along the table and stay below the next one, through
\* deletes and restarts: the lookup by binary search and the index entries
\* rely on it.
RowIdsIncrease ==
  \A n \in DOMAIN tables :
    LET t == tables[n]
    IN /\ \A p, q \in DOMAIN t.ids : p < q => t.ids[p] < t.ids[q]
       /\ \A p \in DOMAIN t.ids : t.ids[p] < t.next

\* Columns with the same SQL value, none of them NULL.
SameKey(t, p, q, cols) ==
  \A i \in DOMAIN cols :
    LET c == ColumnIndex(t, cols[i])
    IN CompareSql(t.rows[p][c], "=", t.rows[q][c]) = "True"

\* No two rows agree on a PRIMARY KEY or on a UNIQUE key without NULL, for
\* every such constraint of the schema, whichever statements built and
\* altered the table (README: "PRIMARY KEY, UNIQUE, CHECK, and RESTRICT
\* foreign-key constraints").
KeysAreUnique ==
  \A n \in DOMAIN tables :
    LET t == tables[n]
    IN \A c \in Range(t.constraints) :
         c.kind \in {"PrimaryKey", "Unique"} =>
           \A p, q \in DOMAIN t.rows :
             p # q => ~(HasColumns(t, c.columns) /\ SameKey(t, p, q, c.columns))

\* Every foreign key leads from each row without NULL to a row of an existing
\* table, whatever happened to either table since the row was inserted.
ForeignKeysLead ==
  \A n \in DOMAIN tables : \A fk \in ForeignKeys(tables[n]) :
    /\ fk.table \in DOMAIN tables
    /\ HasColumns(tables[n], fk.columns) /\ HasColumns(tables[fk.table], fk.referred)
    /\ \A row \in Range(tables[n].rows) :
         LET key == IndexKey(tables[n], row, fk.columns)
         IN HasNull(key) \/ \E target \in Range(tables[fk.table].rows) :
              \A i \in DOMAIN key :
                CompareSql(target[ColumnIndex(tables[fk.table], fk.referred[i])],
                           "=", key[i]) = "True"

\* The columns that keys, foreign keys and indexes name exist, and the columns of
\* a primary key are NOT NULL, after every list of ALTER operations.  Nothing is
\* said of CHECK: constraint_columns gives it none, and DROP COLUMN leaves it.
SchemaIsClosed ==
  \A n \in DOMAIN tables :
    LET t == tables[n]
    IN /\ Cardinality(Names(t.columns)) = Len(t.columns)
       /\ \A c \in Range(t.constraints) :
            /\ HasColumns(t, c.columns)
            /\ c.kind = "PrimaryKey" =>
                 \A i \in DOMAIN c.columns :
                   ~t.columns[ColumnIndex(t, c.columns[i])].nullable
       /\ \A x \in Range(t.indexes) : HasColumns(t, x.columns)

\* The literal of each atom has the type of its column.
WellTyped(t, sel) ==
  \A i \in DOMAIN sel :
    /\ HasColumn(t, sel[i].col)
    /\ sel[i].op # "IsNull" =>
         sel[i].val.type = t.columns[ColumnIndex(t, sel[i].col)].type

\* A WHERE clause selects through any index what it selects by a scan, with
\* entries and Bloom filters maintained row by row or rebuilt, as long as its
\* literals have the types of their columns.
IndexFindsWhatScanFinds ==
  \A n \in DOMAIN tables : \A sel \in Selections :
    WellTyped(tables[n], sel) =>
      \A ids \in CandidateRowIds(tables[n], sel) :
        Selected(tables[n], ids, sel) = Selected(tables[n], Range(tables[n].ids), sel)

\* Index entries maintained one row at a time are those a restart would
\* build, and a restart changes neither rows, ids, constraints nor indexes.
RestartChangesNothing ==
  \A n \in DOMAIN tables :
    LET t == tables[n]
        r == MigrateLegacyRows(n, t)
    IN /\ r.rows = t.rows /\ r.ids = t.ids
       /\ r.constraints = t.constraints /\ r.indexes = t.indexes
       /\ \A name \in DOMAIN r.runtime :
            r.runtime[name].entries = t.runtime[name].entries
=============================================================================
