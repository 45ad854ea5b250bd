----------------------------- MODULE MCCatalog -----------------------------
(* Two tables, a parent and a child with a foreign key, and the statements *)
(* TLC runs on them.                                                       *)
EXTENDS Catalog

(* Integers that are one double: as FLOAT, Nine is Eight.                  *)
Eight == IntegerValue(8)
Nine == IntegerValue(9)
MCRounding == (Nine.v :> Eight.v)

Column(name, nullable, key) ==
  [name |-> name, type |-> "Integer", nullable |-> nullable, key |-> key,
   default |-> Null, checks |-> <<>>, references |-> <<>>]

Atom(col, op, val) == [col |-> col, op |-> op, val |-> val]

Key(kind, cols) == [kind |-> kind, name |-> <<>>, columns |-> cols,
                    table |-> "", referred |-> <<>>, expr |-> <<>>]

Definition(defs, extra) ==
  LET d == [i \in DOMAIN defs |-> ConvertColumnDef(defs[i])]
  IN [columns |-> [i \in DOMAIN d |-> d[i].column],
      constraints |-> FoldLeft(LAMBDA s, e : s \o e.constraints, <<>>, d) \o extra]

ForeignKey(cols, table, referred) ==
  [Key("ForeignKey", cols) EXCEPT !.table = table, !.referred = referred]

MCTableDefs ==
  [p |-> {Definition(<<Column("a", TRUE, ""), Column("b", TRUE, "")>>,
                     <<Key("PrimaryKey", <<"a", "b">>)>>)},
   c |-> {Definition(<<[Column("a", TRUE, "") EXCEPT
                          !.checks = <<<<Atom("a", "<", IntegerValue(10))>>>>],
                       [Column("b", TRUE, "") EXCEPT !.default = Eight]>>,
                     <<ForeignKey(<<"a", "b">>, "p", <<"a", "b">>)>>)}]

MCIndexDefs == {[name |-> <<"i">>, columns |-> <<"b", "a">>, unique |-> FALSE]}

Op(kind, col) == [kind |-> kind, col |-> col, lenient |-> FALSE]
Add(name, key) == [kind |-> "AddColumn", lenient |-> FALSE,
                   def |-> ConvertColumnDef([Column(name, TRUE, key) EXCEPT !.default = Eight])]
Change(old, d) == [kind |-> "ModifyColumn", col |-> old, def |-> ConvertColumnDef(d)]
RenameTo(old, new) == [kind |-> "RenameColumn", col |-> old, new |-> new]
AddKey(c) == [kind |-> "AddConstraint", constraint |-> c]
DropKey(name) == [kind |-> "DropConstraint", name |-> name, lenient |-> TRUE]

MCAlterLists ==
  { <<Add("d", "")>>,
    <<Op("DropColumn", "d")>>,
    <<RenameTo("b", "e")>>,
    <<Change("a", Column("f", TRUE, ""))>>,
    <<[kind |-> "SetDataType", col |-> "b", type |-> "Float"]>>,
    <<[kind |-> "SetNullable", col |-> "a", nullable |-> FALSE],
      [kind |-> "SetDefault", col |-> "a", val |-> Nine]>>,
    <<AddKey(Key("Unique", <<"b">>))>>,
    <<DropKey(<<"p", "b", "uk">>), DropKey(<<"c", "a", "b", "fk">>)>>,
    <<[kind |-> "DropPrimaryKey"], AddKey(Key("PrimaryKey", <<"a">>))>> }

Row(x, y) == <<x, y>>
Values(cols, rows, dup) == [columns |-> cols, rows |-> rows, onDuplicate |-> dup]
Assign(col, kind, src, val) == [col |-> col, kind |-> kind, src |-> src, val |-> val]

MCInserts ==
  [values |->
     { Values(<<>>, <<Row(Eight, Nine)>>, <<>>),
       Values(<<>>, <<Row(Nine, Eight)>>, <<>>),
       Values(<<"a">>, <<<<Eight>>>>, <<Assign("b", "incoming", "a", Null)>>),
       Values(<<"b", "a">>, <<Row(Nine, Eight)>>,
              <<Assign("a", "literal", "", Nine), Assign("b", "column", "a", Null)>>) },
   queries |-> { [from |-> "p", columns |-> <<"a", "b">>,
                  selection |-> <<Atom("a", ">", Eight)>>] }]

MCUpdates == { <<Assign("b", "column", "a", Null)>> }

MCSelections ==
  { <<>>,
    <<Atom("a", "=", Nine), Atom("b", "=", Nine)>>,
    <<Atom("b", "=", Eight), Atom("a", ">=", Nine)>>,
    <<Atom("a", "IsNull", Null)>> }
=============================================================================
