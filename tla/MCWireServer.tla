---------------------------- MODULE MCWireServer ----------------------------
(***************************************************************************)
(* Two connections.  In every script one of them exercises a part of the   *)
(* protocol and the other one changes what they share.                     *)
(***************************************************************************)
EXTENDS WireServer

Plain(kind) == [kind |-> kind, parameters |-> 0, sites |-> <<>>]
Reads(q) == [kind |-> "read", parameters |-> 0,
             sites |-> <<[query |-> q, temporary |-> FALSE]>>]

\* One text of every kind of statement; r1 and r2 have a subquery each, w has
\* one in its WHERE clause, u one in an ON DUPLICATE KEY assignment.
MCParse ==
  [i |-> Plain("write"), begin |-> Plain("begin"), commit |-> Plain("commit"), rollback |-> Plain("rollback"),
   ddl |-> Plain("schema"), sysvar |-> Plain("system"), bad |-> Plain("invalid"),
   r1 |-> Reads("q1"), r2 |-> Reads("q2"),
   w |-> [kind |-> "write", parameters |-> 0,
          sites |-> <<[query |-> "q1", temporary |-> FALSE]>>],
   u |-> [kind |-> "write", parameters |-> 0,
          sites |-> <<[query |-> "q1", temporary |-> TRUE]>>],
   p |-> [kind |-> "write", parameters |-> 2, sites |-> <<>>],
   q |-> [kind |-> "read", parameters |-> 1, sites |-> <<>>],
   set |-> [kind |-> "set", parameters |-> 0, sites |-> <<>>, name |-> "v", value |-> "r2"],
   setnum |-> [kind |-> "set", parameters |-> 0, sites |-> <<>>, name |-> "v", value |-> "number"],
   prep |-> [kind |-> "prepare", parameters |-> 0, sites |-> <<>>, name |-> "n", source |-> "v"],
   prepq |-> [kind |-> "prepare", parameters |-> 0, sites |-> <<>>, name |-> "n", source |-> "q"],
   exec |-> [kind |-> "execute", parameters |-> 0, sites |-> <<>>, name |-> "n", using |-> <<>>],
   execv |-> [kind |-> "execute", parameters |-> 0, sites |-> <<>>, name |-> "n", using |-> <<"v">>],
   free |-> [kind |-> "deallocate", parameters |-> 0, sites |-> <<>>, name |-> "n"]]

Q(texts) == {[kind |-> "query", text |-> t] : t \in texts}
P(texts) == {[kind |-> "stmtPrepare", text |-> t] : t \in texts}
On(kind, ids) == {[kind |-> kind, id |-> i] : i \in ids}
L(ids, params, chunks) ==
  {[kind |-> "longData", id |-> i, param |-> n, chunk |-> k] :
     i \in ids, n \in params, k \in chunks}
X(ids, nulls, types, bad) ==
  {[kind |-> "stmtExecute", id |-> i, nulls |-> n, types |-> t, bad |-> b] :
     i \in ids, n \in nulls, t \in types, b \in bad}
Ping1 == {[kind |-> "ping"], [kind |-> "unknown"]}

\* Long data, executions that cannot be decoded, resets and closes.
LongScript ==
  LET use == L({1}, {1, 2}, {"head", "tail"}) \cup On("stmtReset", {1})
               \cup X({1}, {{}, {1}}, BOOLEAN, {{}, {2}}) \cup On("stmtClose", {1})
  IN <<P({"p"}), L({1}, {1}, {"head"}), L({1}, {1, 2}, {"head", "tail"}) \cup On("stmtReset", {1}),
       use, use, X({1, 2}, {{}}, {TRUE}, {{}})>>

\* Statement ids, with IdLimit small enough to go round.
IdScript ==
  LET step == P({"p", "q"}) \cup On("stmtClose", {1, 2}) \cup L({1}, {1}, {"head"})
  IN <<P({"p", "begin"}), step, step, step, step, X({1, 2}, {{}}, {TRUE}, {{}})>>

\* Transactions beside a connection that commits.
TxnScript ==
  LET step == Q({"begin", "commit", "rollback", "i", "ddl"})
  IN <<Q({"begin", "sysvar", "bad"}), step \cup Ping1, step, Q({"commit"}) \cup Ping1>>

\* Named prepared statements and user variables.
NamedScript ==
  <<Q({"set", "setnum", "prepq"}), Q({"prep", "prepq", "set"}), Q({"exec", "execv", "free"}),
    Q({"exec", "execv", "q"})>>

ReadScript == <<Q({"r1", "r2", "w", "u"}), Q({"r1", "r2", "u"})>>
TxnReadScript == <<Q({"begin"}), Q({"w", "u"}), Q({"r1", "r2"})>>

Pair(a, b) == [c \in Conns |-> IF c = "c1" THEN a ELSE b]
MCScripts ==
  {Pair(LongScript, <<>>), Pair(IdScript, <<>>), Pair(TxnScript, <<Q({"i", "ddl"})>>),
   Pair(NamedScript, <<Q({"ddl"})>>), Pair(ReadScript, <<Q({"w", "r1"}), Q({"r2"})>>),
   Pair(TxnReadScript, <<Q({"r1", "r2"}), Q({"r1", "u"})>>),
   Pair(<<P({"q"}), X({1}, {{}}, {TRUE}, {{}}), Q({"r1"})>>, <<Q({"ddl", "r2"}), Q({"ddl"})>>)}

\* An upsert with two assignments, each with a subquery of its own.
MCUpsert ==
  [n \in {"u2"} |->
     [kind |-> "write", parameters |-> 0,
      sites |-> <<[query |-> "q1", temporary |-> TRUE], [query |-> "q2", temporary |-> TRUE]>>]]
MCUpsertScripts == {Pair(<<Q({"u2"})>>, <<>>)}

=============================================================================
